---- MODULE Spec2Model ----
(***************************************************************************)
(* shephard: the side-channel synchronisation engine (src/src/git.rs) and  *)
(* the per-repository workflow that drives it (src/src/workflow.rs), for   *)
(* several hosts that share one side-channel branch on an auxiliary        *)
(* remote (Spec); the workflow runner and the straight path of run_repo    *)
(* (WorkflowSpec); and the resolution of the configuration and of the      *)
(* flags with the exit code of the process, src/src/config.rs,             *)
(* src/src/main.rs and src/src/report.rs (ConfigSpec). Further             *)
(* specifications cover the loading of the configuration file and the      *)
(* choice of the run targets (LoadSpec), the interactive selector of       *)
(* src/src/tui.rs with the selection state (TuiSpec), discovery            *)
(* (DiscoverySpec), shephard apply (ApplySpec), the printed report         *)
(* (ReportSpec), and side_channel_sync of one working copy whose branch    *)
(* name is short or a full ref name, with a developer who commits in the   *)
(* working copy (SyncSpec).                                                *)
(*                                                                         *)
(* Git objects are modelled by value: a tree is a function from paths to   *)
(* file contents, a commit is a record of its tree, its parent and its     *)
(* message, and an object id is the object itself (content addressing).    *)
(* An optional value is a sequence of length 0 or 1.                       *)
(***************************************************************************)
EXTENDS Integers, Sequences, FiniteSets, TLC

\* The working copies ("hosts") that share the side-channel branch, by hostname.
HostNames == << "host1", "host2" >>

Hosts == { HostNames[i] : i \in DOMAIN HostNames }

\* What an edit made on host h writes into a region: distinct per host.
Mark(h) == CHOOSE i \in DOMAIN HostNames : HostNames[i] = h

\* Bound: workflow runs started, over all hosts.
MaxRuns == 3

\* Bound: working-tree edits per host.
MaxEdits == 2

\* Bound: results handed to the report.
MaxResults == 3

None == << >>

Some(x) == << x >>

\* File names, in the lexicographic order of the names (the order of a BTreeSet<String>).
PathNames == << "a.txt", "b.txt" >>

Paths == { PathNames[i] : i \in DOMAIN PathNames }

Rank(p) == CHOOSE i \in DOMAIN PathNames : PathNames[i] = p

\* A file is a sequence of regions (groups of lines separated by unchanged
\* context, so that git merges edits of different regions); << >> is "no file".
\* a.txt is tracked in the initial commit, b.txt does not exist there.
BaseTree == [p \in Paths |-> IF p = "a.txt" THEN << 0, 0 >> ELSE << >>]

EmptyTree == [p \in Paths |-> << >>]

RootCommit == [tree |-> BaseTree, parent |-> None, msg |-> << "initial commit" >>]

\* The text git leaves in a file whose merge conflicted.
ConflictMarkers == << -1 >>

SideRemote == "shephard"

(***************************************************************************)
(* git plumbing used by the engine                                         *)
(***************************************************************************)

\* A variant that writes a commit without a parent.
commit_tree_without_parent(tree, parent, message) ==
    [tree |-> tree, parent |-> None, msg |-> message]

\* git commit-tree <tree> -m <message> -p <parent>: the commit object.
commit_tree(tree, parent, message) == [tree |-> tree, parent |-> parent, msg |-> message]

RECURSIVE is_ancestor(_, _)
\* git merge-base --is-ancestor <ancestor> <descendant> (exit 0 / exit 1)
is_ancestor(ancestor, descendant) ==
    IF ancestor = descendant THEN TRUE
    ELSE IF descendant.parent = None THEN FALSE
    ELSE is_ancestor(ancestor, descendant.parent[1])

RECURSIVE merge_base(_, _)
\* git merge-base <left> <right>: the nearest common ancestor, None if there is none
merge_base(left, right) ==
    IF is_ancestor(left, right) THEN Some(left)
    ELSE IF left.parent = None THEN None
    ELSE merge_base(left.parent[1], right)

\* Three-way merge of one file: which side changed it against the base.
FileConflicts(b, o, t) ==
    /\ o # t
    /\ o # b
    /\ t # b
    /\ \/ Len(o) # Len(b)
       \/ Len(t) # Len(b)
       \/ \E r \in DOMAIN b : o[r] # b[r] /\ t[r] # b[r] /\ o[r] # t[r]

MergeFile(b, o, t) ==
    IF o = t THEN o
    ELSE IF o = b THEN t
    ELSE IF t = b THEN o
    ELSE IF FileConflicts(b, o, t) THEN ConflictMarkers
    ELSE [r \in DOMAIN b |-> IF o[r] = b[r] THEN t[r] ELSE o[r]]

ConflictPathSet(base, ours, theirs) ==
    { p \in Paths : FileConflicts(base[p], ours[p], theirs[p]) }

RECURSIVE SortedSeq(_)
\* The elements of a set of paths in ascending order.
SortedSeq(S) ==
    IF S = {} THEN << >>
    ELSE LET m == CHOOSE p \in S : \A q \in S : Rank(p) <= Rank(q)
         IN  << m >> \o SortedSeq(S \ {m})

\* "Conflicted file info" of git merge-tree: one line "<mode> <oid> <stage>\t<path>"
\* for every stage of the path that exists (1 base, 2 ours, 3 theirs).
StageLines(p, base, ours, theirs) ==
    (IF base[p] # << >> THEN << << "<mode> <oid> 1", "\t", p >> >> ELSE << >>)
    \o (IF ours[p] # << >> THEN << << "<mode> <oid> 2", "\t", p >> >> ELSE << >>)
    \o (IF theirs[p] # << >> THEN << << "<mode> <oid> 3", "\t", p >> >> ELSE << >>)

RECURSIVE ConflictInfo(_, _, _, _)
ConflictInfo(ps, base, ours, theirs) ==
    IF ps = << >> THEN << >>
    ELSE StageLines(Head(ps), base, ours, theirs)
         \o ConflictInfo(Tail(ps), base, ours, theirs)

RECURSIVE ConflictMessages(_)
ConflictMessages(ps) ==
    IF ps = << >> THEN << >>
    ELSE << << "Auto-merging ", Head(ps) >>,
            << "CONFLICT (content): Merge conflict in ", Head(ps) >> >>
         \o ConflictMessages(Tail(ps))

\* git merge-tree --write-tree --merge-base <base> <ours> <theirs>: the exit
\* status, the tree named on the first line of stdout, and the lines after it.
MergeTree(base, ours, theirs) ==
    LET cs == SortedSeq(ConflictPathSet(base, ours, theirs))
    IN  [ success |-> cs = << >>,
          tree    |-> [p \in Paths |-> MergeFile(base[p], ours[p], theirs[p])],
          lines   |-> IF cs = << >> THEN << >>
                      ELSE ConflictInfo(cs, base, ours, theirs)
                           \o << << >> >> \o ConflictMessages(cs) ]

(***************************************************************************)
(* Pure parts of the engine                                                *)
(***************************************************************************)

\* line.split_once('\t'): what follows the first tab of the line, if it has one.
SplitOnceTab(line) ==
    IF \E i \in DOMAIN line : line[i] = "\t"
    THEN LET i == CHOOSE k \in DOMAIN line :
                      line[k] = "\t" /\ \A j \in 1..(k - 1) : line[j] # "\t"
         IN  Some(SubSeq(line, i + 1, Len(line)))
    ELSE None

\* The path of every line that has a tab, in line order, repetitions kept.
PathsInOrder(lines) ==
    LET tabbed == SelectSeq(lines, LAMBDA line : SplitOnceTab(line) # None)
    IN  [i \in 1..Len(tabbed) |-> SplitOnceTab(tabbed[i])[1][1]]

\* A variant that collects the paths into a Vec: neither de-duplicated nor sorted.
conflict_paths_as_vec(lines) == PathsInOrder(lines)

\* The paths are inserted into a BTreeSet and read back in its order.
conflict_paths_from_merge_tree_output(lines) ==
    LET ps == PathsInOrder(lines)
    IN  SortedSeq({ ps[i] : i \in DOMAIN ps })

RECURSIVE Join(_, _)
\* conflicts.join(sep)
Join(seq, sep) ==
    IF seq = << >> THEN << >>
    ELSE IF Len(seq) = 1 THEN seq
    ELSE << Head(seq), sep >> \o Join(Tail(seq), sep)

ConflictText == "side-channel merge conflict while combining local changes with remote tip <side_tip>: "

RacedText == "side-channel push rejected after retry because branch advanced concurrently"

PushFailedText == "git push failed"

FetchFailedText == "git [\"fetch\"] failed"

MissingRemoteText == "missing side-channel remote "

\* Result<String>: a tree on success, the error's text otherwise.
Ok(tree) == [ok |-> TRUE, tree |-> tree, err |-> << >>]

Err(e) == [ok |-> FALSE, tree |-> EmptyTree, err |-> e]

\* A variant that publishes the local snapshot tree whatever the side tip holds.
merge_overwrites_side_tip(local_head, local_tree, side_tip) == Ok(local_tree)

\* A variant that takes the first line of merge-tree's output without looking at
\* its exit status.
merge_ignores_conflicts(local_head, local_tree, side_tip) ==
    IF side_tip = None THEN Ok(local_tree)
    ELSE IF is_ancestor(side_tip[1], local_head) THEN Ok(local_tree)
    ELSE LET base == merge_base(local_head, side_tip[1])
         IN  Ok(MergeTree(base[1].tree, local_tree, side_tip[1].tree).tree)

\* A variant that publishes the tree of a diverged side tip in place of the merge.
merge_takes_side_tree(local_head, local_tree, side_tip) ==
    IF side_tip = None THEN Ok(local_tree)
    ELSE IF is_ancestor(side_tip[1], local_head) THEN Ok(local_tree)
    ELSE Ok(side_tip[1].tree)

\* The tree to publish: the snapshot itself, or its three-way merge with the side tip.
merge_side_tip_into_snapshot(local_head, local_tree, side_tip) ==
    IF side_tip = None THEN Ok(local_tree)
    ELSE IF is_ancestor(side_tip[1], local_head) THEN Ok(local_tree)
    ELSE LET base == merge_base(local_head, side_tip[1])
         IN  IF base = None THEN Err(<< "git [\"merge-base\"] failed" >>)
             ELSE LET local_commit == commit_tree(local_tree, Some(local_head),
                                          << "shephard side-channel local snapshot" >>)
                      output == MergeTree(base[1].tree, local_commit.tree, side_tip[1].tree)
                  IN  IF ~output.success
                      THEN LET conflicts == conflict_paths_from_merge_tree_output(output.lines)
                           IN  IF conflicts # << >>
                               THEN Err(<< ConflictText >> \o Join(conflicts, ", "))
                               ELSE Err(<< "git merge-tree failed" >>)
                      ELSE Ok(output.tree)

\* git push <remote> <commit>:<destination_ref>, seen from the client: the remote
\* cannot be reached; or it takes the update, when the ref does not exist yet or
\* the commit descends from its value (or the refspec forces it); or it prints
\* "! [rejected]".
GitPush(remote_tip, commit, force, reachable) ==
    IF ~reachable
    THEN [success |-> FALSE, output |-> << "fatal: unable to access" >>]
    ELSE IF force \/ remote_tip = None \/ is_ancestor(remote_tip[1], commit)
    THEN [success |-> TRUE, output |-> << >>]
    ELSE [success |-> FALSE, output |-> << "[rejected]" >>]

Contains(output, fragment) == \E i \in DOMAIN output : output[i] = fragment

\* A variant whose refspec forces the update ("+<commit>:<destination_ref>").
push_forced(remote_tip, commit_hash, reachable) ==
    IF GitPush(remote_tip, commit_hash, TRUE, reachable).success THEN "Pushed" ELSE "Err"

push_side_channel_commit(remote_tip, commit_hash, reachable) ==
    LET output == GitPush(remote_tip, commit_hash, FALSE, reachable)
    IN  IF output.success THEN "Pushed"
        ELSE IF Contains(output.output, "non-fast-forward") \/ Contains(output.output, "[rejected]")
        THEN "NonFastForward"
        ELSE "Err"

\* A variant that always builds on the local HEAD.
parent_always_head(side_tip, local_head) == local_head

\* The parent of the new commit: the side tip if there is one, the baseline HEAD otherwise.
commit_parent(side_tip, local_head) ==
    IF side_tip # None THEN side_tip[1] ELSE local_head

\* A variant that retries after every rejection.
retry_always(push_result, did_retry) ==
    CASE push_result = "Pushed" -> "return"
      [] push_result = "NonFastForward" -> "refetch"
      [] OTHER -> "bail"

\* Ref and branch names are the sequences of their components between "/".
\* The side branch of the default configuration, shephard/sync.
DefaultBranch == << "shephard", "sync" >>

\* The remote's branch that the branch names of the model name.
SideBranchRef == << "refs", "heads" >> \o DefaultBranch

\* branch_name.starts_with("refs/")
starts_with_refs(branch_name) == Len(branch_name) > 1 /\ branch_name[1] = "refs"

\* A variant that prefixes every branch name with refs/heads/.
destination_always_prefixed(branch_name) == << "refs", "heads" >> \o branch_name

\* destination_ref: the right-hand side of the push refspec.
destination_ref(branch_name) ==
    IF starts_with_refs(branch_name) THEN branch_name
    ELSE << "refs", "heads" >> \o branch_name

\* remote_ref: the revision "<remote>/<branch_name>" the side tip is looked up as.
remote_ref(remote_name, branch_name) == << remote_name >> \o branch_name

\* The remote-tracking ref git fetch <remote_name> writes for the remote's ref
\* src, under the remote's fetch refspec +refs/heads/*:refs/remotes/<remote_name>/*;
\* a ref outside refs/heads/ has none.
tracking_ref(remote_name, src) ==
    IF Len(src) > 2 /\ src[1] = "refs" /\ src[2] = "heads"
    THEN Some(<< "refs", "remotes", remote_name >> \o SubSeq(src, 3, Len(src)))
    ELSE None

\* The ref a repository without branches or tags under the remote's name
\* resolves the revision "<remote>/<...>" to: refs/remotes/<remote>/<...>.
resolve_revision(rev) == << "refs", "remotes" >> \o rev

\* A variant that treats a failed push like a rejected one.
retry_on_error(push_result, did_retry) ==
    CASE push_result = "Pushed" -> "return"
      [] ~did_retry -> "refetch"
      [] push_result = "NonFastForward" -> "raced"
      [] OTHER -> "bail"

\* A variant that returns from the loop only after a second accepted push.
return_after_retry_only(push_result, did_retry) ==
    CASE push_result = "Pushed" /\ did_retry -> "return"
      [] ~did_retry -> "refetch"
      [] push_result = "NonFastForward" -> "raced"
      [] OTHER -> "bail"

\* The match on the push result at the end of one iteration of the retry loop.
on_push_result(push_result, did_retry) ==
    CASE push_result = "Pushed" -> "return"
      [] push_result = "NonFastForward" /\ ~did_retry -> "refetch"
      [] push_result = "NonFastForward" -> "raced"
      [] OTHER -> "bail"

\* A variant that does not hand the environment to the child process.
env_dropped(env) == "primary"

\* The index file a git child process works on: GIT_INDEX_FILE if the
\* environment passed to it sets it, the repository's primary index otherwise.
IndexFileFor(env) ==
    IF \E kv \in env : kv[1] = "GIT_INDEX_FILE"
    THEN (CHOOSE kv \in env : kv[1] = "GIT_INDEX_FILE")[2]
    ELSE "primary"

\* A variant that adds every path of the working tree, as git add -A does.
stage_add_all(index_tree, work_tree, include_untracked) == work_tree

\* git add -A / git add -u into an index: tracked paths follow the working
\* tree; paths the index does not hold are added only with -A.
StageAdd(index_tree, work_tree, include_untracked) ==
    [p \in Paths |-> IF index_tree[p] # << >> \/ include_untracked
                     THEN work_tree[p]
                     ELSE index_tree[p]]

\* git diff --cached --quiet: exit 0 when the index equals HEAD's tree, 1 otherwise.
DiffCachedQuiet(index_tree, head_commit) == IF index_tree = head_commit.tree THEN 0 ELSE 1

\* A variant that reads the exit code the other way round.
has_staged_changes_inverted(exit_code) == exit_code = 0

\* has_staged_changes_with_env: exit code 1 means staged changes, 0 means none.
has_staged_changes_with_env(exit_code) == exit_code = 1

\* generate_commit_message with the default template: the text, the hostname and
\* the scope. The timestamp is left out: two commits of the model that differ
\* differ in tree, parent or hostname already.
generate_commit_message(h, include_untracked) ==
    << "shephard sync: ", h, IF include_untracked THEN "all" ELSE "tracked" >>

(***************************************************************************)
(* State                                                                   *)
(***************************************************************************)

VARIABLES
    cfg,        \* the run configuration (ResolvedRunConfig), fixed for a behaviour
    remotes,    \* per host: the names of the remotes configured in the repository
    head,       \* per host: the commit HEAD names
    index,      \* per host: the primary index, as the tree it holds
    wt,         \* per host: the working tree
    snap,       \* per host: the temporary snapshot index file, None while there is none
    tracking,   \* per host: refs/remotes/<remote>/<branch>, None while it does not exist
    remoteTip,  \* the side-channel branch on the auxiliary remote, None before its creation
    pc,         \* per host: where run_repo / side_channel_sync stands
    loc,        \* per host: the locals of side_channel_sync
    result,     \* per host: the RepoResult of the last finished run
    calls,      \* per host: runs started
    trace,      \* per host: what the current run did, for the properties
    repos,      \* workflow::run: the repositories to process, in input order
    runner,     \* workflow::run: the loop's position and state, and the exit code
    results,    \* workflow::run: the RepoResults accumulated so far
    ops,        \* per repository: the git operations run_repo has run, in order
    has_changes,\* per repository: run_repo's local has_changes
    origin,     \* per repository: the branch on origin that the local branch tracks
    args,       \* main: the flags of the run subcommand (RunArgs)
    config,     \* main: the configuration file as config::load finds it
    selected,   \* main: the configured repositories the run selects, with their overrides
    main,       \* main: where run_sync stands, and what it has resolved
    app,        \* tui: the App of the interactive selector and its outcome
    state,      \* state: State.selected_repos, canonical path -> selected
    walk,       \* discovery: the directory tree, the roots and the repositories found
    applyRun,   \* apply: the arguments of apply::run, its position and its result
    stdout      \* report: the lines printed so far

\* The state of the workflow runner and of the controller.
runnerVars == << repos, runner, results, ops, has_changes, origin >>

controllerVars == << args, config, selected, main >>

\* The state of the selector, of discovery, of apply and of the report.
toolVars == << app, state, walk, applyRun, stdout >>

engineVars == << cfg, remotes, head, index, wt, snap, tracking, remoteTip, pc, loc,
                 result, calls, trace >>

vars == << engineVars, runnerVars, controllerVars, toolVars >>

InitLoc == [local_tree |-> EmptyTree, local_head |-> RootCommit, side_tip |-> None,
            commit_hash |-> None, did_retry |-> FALSE]

NoResult == [status |-> "none", message |-> << >>, sync |-> "none"]

\* pushes, refetches, commits: push attempts, re-fetches and commit objects of the run;
\* snapshots: snapshot index files allocated; published: the commit of the run that
\* the remote accepted;
\* staged: the snapshot tree written; looked: the first tip lookup happened;
\* advFetch / advLookup: accepted pushes of other hosts since the run's preflight
\* fetch / since its first tip lookup (counted up to 2);
\* resync: at the preflight fetch the branch tip was a commit of this host that
\* holds exactly what the working copy stages now (the run repeats the host's
\* last published snapshot).
InitTrace == [pushes |-> 0, refetches |-> 0, commits |-> 0, snapshots |-> 0,
              published |-> None, staged |-> None, looked |-> FALSE,
              advFetch |-> 0, advLookup |-> 0, resync |-> FALSE,
              seeded |-> None, destinations |-> {}]

\* The workflow runner before workflow::run is called.
NoRunner == [pos |-> 0, state |-> "none"]

\* The runner's variables in a behaviour that does not call workflow::run.
RunnerUnused ==
    /\ repos = << >>
    /\ runner = NoRunner
    /\ results = << >>
    /\ ops = [h \in Hosts |-> << >>]
    /\ has_changes = [h \in Hosts |-> FALSE]
    /\ origin = [h \in Hosts |-> RootCommit]

\* The other components' variables in a behaviour that does not use them.
ToolsUnused ==
    /\ app = << >>
    /\ state = << >>
    /\ walk = << >>
    /\ applyRun = << >>
    /\ stdout = << >>

\* The controller's variables in a behaviour that does not go through main.
ControllerUnused ==
    /\ args = << >>
    /\ config = << >>
    /\ selected = << >>
    /\ main = << >>

Init ==
    /\ cfg \in [include_untracked : BOOLEAN,
                side_channel : { [branch_name |-> DefaultBranch] }]
    /\ remotes \in [Hosts -> { {"origin"}, {"origin", SideRemote} }]
    /\ head = [h \in Hosts |-> RootCommit]
    /\ index = [h \in Hosts |-> BaseTree]
    /\ wt = [h \in Hosts |-> BaseTree]
    /\ snap = [h \in Hosts |-> None]
    /\ tracking = [h \in Hosts |-> None]
    /\ remoteTip \in { None, Some(RootCommit) }
    /\ pc = [h \in Hosts |-> "idle"]
    /\ loc = [h \in Hosts |-> InitLoc]
    /\ result = [h \in Hosts |-> NoResult]
    /\ calls = [h \in Hosts |-> 0]
    /\ trace = [h \in Hosts |-> InitTrace]
    /\ RunnerUnused
    /\ ControllerUnused
    /\ ToolsUnused

\* A variant that does not look for the remote.
remote_check_skipped(h, remote_name) == << >>

\* ensure_remote_exists: git remote get-url <name>
ensure_remote_exists(h, remote_name) ==
    IF remote_name \in remotes[h] THEN << >>
    ELSE << MissingRemoteText, remote_name, ": git [\"remote\", \"get-url\"] failed" >>

\* run_repo's conversion of the engine's outcome into a RepoResult
SyncRepoResult(value, err) ==
    CASE value = "Pushed" ->
           [status |-> "Success", message |-> << "pull ok, side-channel commit pushed" >>,
            sync |-> "Pushed"]
      [] value = "NoChanges" ->
           [status |-> "NoOp", message |-> << "pull ok, no local changes to commit" >>,
            sync |-> "NoChanges"]
      [] OTHER ->
           [status |-> "Failed", message |-> << "side-channel sync failed: " >> \o err,
            sync |-> "Err"]

\* A variant that persists the temporary index file, so that leaving
\* side_channel_sync does not remove it.
finish_keeps_index(h, res) ==
    /\ pc' = [pc EXCEPT ![h] = "done"]
    /\ result' = [result EXCEPT ![h] = res]
    /\ snap' = snap
    /\ loc' = [loc EXCEPT ![h] = InitLoc]

\* The run ends with a RepoResult; leaving side_channel_sync drops the
\* NamedTempFile, which removes the snapshot index file.
Finish(h, res) ==
    /\ pc' = [pc EXCEPT ![h] = "done"]
    /\ result' = [result EXCEPT ![h] = res]
    /\ snap' = [snap EXCEPT ![h] = None]
    /\ loc' = [loc EXCEPT ![h] = InitLoc]

\* The index file of host h named by file, as an optional tree.
IndexTree(h, file) == IF file = "primary" THEN index[h] ELSE snap[h][1]

WriteIndex(h, file, tree) ==
    IF file = "primary"
    THEN index' = [index EXCEPT ![h] = tree] /\ UNCHANGED snap
    ELSE snap' = [snap EXCEPT ![h] = Some(tree)] /\ UNCHANGED index

SnapshotEnv == { << "GIT_INDEX_FILE", "temp" >> }

(***************************************************************************)
(* The developer                                                           *)
(***************************************************************************)

RECURSIVE SumOver(_, _)
SumOver(f, S) ==
    IF S = {} THEN 0
    ELSE LET x == CHOOSE y \in S : TRUE IN f[x] + SumOver(f, S \ {x})

RunsStarted == SumOver(calls, Hosts)

\* The edits a working tree holds against the initial commit.
NumEdits(tree) ==
    Cardinality({ r \in DOMAIN tree["a.txt"] : tree["a.txt"][r] # BaseTree["a.txt"][r] })
    + (IF tree["b.txt"] # BaseTree["b.txt"] THEN 1 ELSE 0)

\* An edit of the working tree between runs: one region of a.txt, or the
\* creation of the untracked file b.txt.
Edit(h) ==
    /\ pc[h] = "idle"
    /\ RunsStarted < MaxRuns
    /\ NumEdits(wt[h]) < MaxEdits
    /\ \/ \E r \in DOMAIN wt[h]["a.txt"] :
             /\ wt[h]["a.txt"][r] = 0
             /\ wt' = [wt EXCEPT ![h]["a.txt"][r] = Mark(h)]
       \/ /\ wt[h]["b.txt"] = << >>
          /\ wt' = [wt EXCEPT ![h]["b.txt"] = << Mark(h) >>]
    /\ UNCHANGED << cfg, remotes, head, index, snap, tracking, remoteTip, pc, loc,
                    result, calls, trace >>
    /\ UNCHANGED << runnerVars, controllerVars, toolVars >>

(***************************************************************************)
(* run_repo on the side-channel path (workflow.rs), one action per step    *)
(***************************************************************************)

\* run_repo starts: git pull --ff-only, which succeeds or fails.
RunRepo(h) ==
    /\ pc[h] = "idle"
    /\ RunsStarted < MaxRuns
    /\ calls' = [calls EXCEPT ![h] = @ + 1]
    /\ \/ /\ pc' = [pc EXCEPT ![h] = "preflight"]
          /\ UNCHANGED << result, snap, loc >>
       \/ Finish(h, [status |-> "Failed",
                     message |-> << "pull failed: ", "git [\"pull\", \"--ff-only\"] failed" >>,
                     sync |-> "none"])
    /\ UNCHANGED << cfg, remotes, head, index, wt, tracking, remoteTip, trace >>
    /\ UNCHANGED << runnerVars, controllerVars, toolVars >>

\* git fetch <remote> ...: fails when the repository has no such remote.
git_fetch(h, remote_name, reachable) ==
    IF remote_name \in remotes[h] /\ reachable THEN << >> ELSE << FetchFailedText >>

\* The working copy of h is dirty, the branch tip is a commit this host
\* published, and the tip's tree already holds everything the working copy
\* stages now: the host's last call published this very snapshot and nothing
\* has been pushed since.
RepeatsOwnSnapshot(h) ==
    LET staged == StageAdd(head[h].tree, wt[h], cfg.include_untracked)
    IN  /\ remoteTip # None
        /\ staged # head[h].tree
        /\ remoteTip[1].msg = generate_commit_message(h, cfg.include_untracked)
        /\ \E base \in { merge_base(head[h], remoteTip[1]) } :
              /\ base # None
              /\ MergeTree(base[1].tree, staged, remoteTip[1].tree)
                    = [success |-> TRUE, tree |-> remoteTip[1].tree, lines |-> << >>]

\* A variant of run_repo that goes on to side_channel_sync without the preflight.
preflight_skipped(h) ==
    /\ pc[h] = "preflight"
    /\ pc' = [pc EXCEPT ![h] = "seed"]
    /\ UNCHANGED << result, snap, loc, tracking, trace >>
    /\ UNCHANGED << cfg, remotes, head, index, wt, remoteTip, calls >>
    /\ UNCHANGED << runnerVars, controllerVars, toolVars >>

\* side_channel_preflight: ensure_remote_exists, then git fetch <remote> --prune,
\* which sets the remote-tracking ref to the branch's tip (or removes it).
Preflight(h) ==
    /\ pc[h] = "preflight"
    /\ \E reachable \in BOOLEAN :
       LET missing == ensure_remote_exists(h, SideRemote)
           err == IF missing # << >> THEN missing ELSE git_fetch(h, SideRemote, reachable)
       IN  IF err # << >>
           THEN /\ Finish(h, [status |-> "Failed",
                              message |-> << "side-channel setup failed: " >> \o err,
                              sync |-> "none"])
                /\ UNCHANGED << tracking, trace >>
           ELSE /\ tracking' = [tracking EXCEPT ![h] = remoteTip]
                /\ pc' = [pc EXCEPT ![h] = "seed"]
                /\ trace' = [trace EXCEPT ![h].resync = RepeatsOwnSnapshot(h)]
                /\ UNCHANGED << result, snap, loc >>
    /\ UNCHANGED << cfg, remotes, head, index, wt, remoteTip, calls >>
    /\ UNCHANGED << runnerVars, controllerVars, toolVars >>

(***************************************************************************)
(* side_channel_sync (git.rs), one action per step                         *)
(***************************************************************************)

\* ensure_remote_exists, the allocation of the temporary index file, and
\* git read-tree HEAD under the snapshot environment.
SnapshotSeed(h) ==
    /\ pc[h] = "seed"
    /\ LET err == ensure_remote_exists(h, SideRemote)
           file == IndexFileFor(SnapshotEnv)
       IN  IF err # << >>
           THEN /\ Finish(h, SyncRepoResult("Err", err))
                /\ UNCHANGED << index, trace >>
           ELSE /\ IF file = "primary"
                   THEN /\ snap' = [snap EXCEPT ![h] = Some(EmptyTree)]
                        /\ index' = [index EXCEPT ![h] = head[h].tree]
                   ELSE /\ snap' = [snap EXCEPT ![h] = Some(head[h].tree)]
                        /\ UNCHANGED index
                /\ pc' = [pc EXCEPT ![h] = "stage"]
                /\ trace' = [trace EXCEPT ![h].snapshots = @ + 1,
                                          ![h].seeded = Some(head[h])]
                /\ UNCHANGED << result, loc >>
    /\ UNCHANGED << cfg, remotes, head, wt, tracking, remoteTip, calls >>
    /\ UNCHANGED << runnerVars, controllerVars, toolVars >>

\* git add -A or git add -u under the snapshot environment, the dirty check,
\* git write-tree under the snapshot environment and git rev-parse HEAD.
StageSnapshot(h) ==
    /\ pc[h] = "stage"
    /\ LET file == IndexFileFor(SnapshotEnv)
           staged == StageAdd(IndexTree(h, file), wt[h], cfg.include_untracked)
       IN  IF ~has_staged_changes_with_env(DiffCachedQuiet(staged, head[h]))
           THEN /\ Finish(h, SyncRepoResult("NoChanges", << >>))
                /\ IF file = "primary"
                   THEN index' = [index EXCEPT ![h] = staged]
                   ELSE UNCHANGED index
                /\ UNCHANGED trace
           ELSE /\ WriteIndex(h, file, staged)
                /\ loc' = [loc EXCEPT ![h] = [InitLoc EXCEPT !.local_tree = staged,
                                                             !.local_head = head[h]]]
                /\ pc' = [pc EXCEPT ![h] = "build"]
                /\ trace' = [trace EXCEPT ![h].staged = Some(staged)]
                /\ UNCHANGED result
    /\ UNCHANGED << cfg, remotes, head, wt, tracking, remoteTip, calls >>
    /\ UNCHANGED << runnerVars, controllerVars, toolVars >>

\* rev_parse_optional: the commit the revision names in the repository of h,
\* if it names one. The only ref under refs/remotes/<remote>/ is the
\* remote-tracking ref of the side branch, which the fetches write.
rev_parse_optional(h, rev) ==
    IF Some(resolve_revision(rev)) = tracking_ref(SideRemote, SideBranchRef)
    THEN tracking[h]
    ELSE None

\* One pass of the retry loop up to the push: rev_parse_optional(<remote>/<branch>)
\* (the tip cached in the local repository), the parent, the tree
\* (merge_side_tip_into_snapshot) and the commit object.
BuildCommit(h) ==
    /\ pc[h] = "build"
    /\ LET l == loc[h]
           side_tip == rev_parse_optional(h, remote_ref(SideRemote,
                                                       cfg.side_channel.branch_name))
           parent == commit_parent(side_tip, l.local_head)
           tree == merge_side_tip_into_snapshot(l.local_head, l.local_tree, side_tip)
           message == generate_commit_message(h, cfg.include_untracked)
       IN  IF ~tree.ok
           THEN /\ Finish(h, SyncRepoResult("Err", tree.err))
                /\ trace' = [trace EXCEPT ![h].looked = TRUE]
           ELSE /\ loc' = [loc EXCEPT ![h].side_tip = side_tip,
                                      ![h].commit_hash =
                                          Some(commit_tree(tree.tree, Some(parent), message))]
                /\ pc' = [pc EXCEPT ![h] = "push"]
                /\ trace' = [trace EXCEPT ![h].looked = TRUE, ![h].commits = @ + 1]
                /\ UNCHANGED << result, snap >>
    /\ UNCHANGED << cfg, remotes, head, index, wt, tracking, remoteTip, calls >>
    /\ UNCHANGED << runnerVars, controllerVars, toolVars >>

UpTo2(n) == IF n < 2 THEN n + 1 ELSE n

\* The steps of a run at which the preflight fetch has been done.
AfterFetch == { "seed", "stage", "build", "push", "refetch" }

\* push_side_channel_commit and the match on its result. The push goes to the
\* remote's ref that destination_ref names: to the side branch, where an
\* accepted push moves the branch and, with it, this host's remote-tracking
\* ref, or to a ref the remote does not have yet.
Push(h) ==
    /\ pc[h] = "push"
    /\ \E reachable \in BOOLEAN :
       LET commit == loc[h].commit_hash[1]
           destination == destination_ref(cfg.side_channel.branch_name)
           on_branch == destination = SideBranchRef
           pushed == push_side_channel_commit(IF on_branch THEN remoteTip ELSE None,
                                              commit, reachable)
           next == on_push_result(pushed, loc[h].did_retry)
           advanced == pushed = "Pushed" /\ on_branch /\ remoteTip # Some(commit)
       IN  /\ IF pushed = "Pushed" /\ on_branch
              THEN /\ remoteTip' = Some(commit)
                   /\ tracking' = [tracking EXCEPT ![h] = Some(commit)]
              ELSE UNCHANGED << remoteTip, tracking >>
           /\ trace' = [g \in Hosts |->
                 IF g = h
                 THEN [trace[h] EXCEPT !.pushes = @ + 1,
                                       !.destinations = @ \cup { destination },
                                       !.published = IF pushed = "Pushed"
                                                      THEN Some(commit) ELSE @]
                 ELSE IF advanced
                 THEN [trace[g] EXCEPT
                         !.advFetch = IF pc[g] \in AfterFetch THEN UpTo2(@) ELSE @,
                         !.advLookup = IF pc[g] \in AfterFetch /\ trace[g].looked
                                       THEN UpTo2(@) ELSE @]
                 ELSE trace[g]]
           /\ CASE next = "return" -> Finish(h, SyncRepoResult("Pushed", << >>))
                [] next = "refetch" -> /\ pc' = [pc EXCEPT ![h] = "refetch"]
                                       /\ UNCHANGED << result, snap, loc >>
                [] next = "raced" -> Finish(h, SyncRepoResult("Err", << RacedText >>))
                [] OTHER -> Finish(h, SyncRepoResult("Err", << PushFailedText >>))
    /\ UNCHANGED << cfg, remotes, head, index, wt, calls >>
    /\ UNCHANGED << runnerVars, controllerVars, toolVars >>

\* A variant whose fetch leaves the remote-tracking ref as it was.
fetch_keeps_stale_tip(cached_tip, remote_tip) == cached_tip

\* git fetch <remote> <branch>: the new value of the remote-tracking ref.
fetch_side_channel(cached_tip, remote_tip) == remote_tip

\* The re-fetch after a rejected first push: fetch_side_channel, did_retry = true,
\* and the loop starts over at the tip lookup.
Refetch(h) ==
    /\ pc[h] = "refetch"
    /\ \E reachable \in BOOLEAN :
       LET missing == ensure_remote_exists(h, SideRemote)
           err == IF missing # << >> THEN missing ELSE git_fetch(h, SideRemote, reachable)
       IN  IF err # << >>
           THEN /\ Finish(h, SyncRepoResult("Err", err))
                /\ UNCHANGED << tracking, trace >>
           ELSE /\ tracking' = [tracking EXCEPT ![h] = fetch_side_channel(@, remoteTip)]
                /\ loc' = [loc EXCEPT ![h].did_retry = TRUE]
                /\ pc' = [pc EXCEPT ![h] = "build"]
                /\ trace' = [trace EXCEPT ![h].refetches = @ + 1]
                /\ UNCHANGED << result, snap >>
    /\ UNCHANGED << cfg, remotes, head, index, wt, remoteTip, calls >>
    /\ UNCHANGED << runnerVars, controllerVars, toolVars >>

\* run_repo hands its RepoResult to the runner; the run is over.
Return(h) ==
    /\ pc[h] = "done"
    /\ pc' = [pc EXCEPT ![h] = "idle"]
    /\ result' = [result EXCEPT ![h] = NoResult]
    /\ trace' = [trace EXCEPT ![h] = InitTrace]
    /\ UNCHANGED << cfg, remotes, head, index, wt, snap, tracking, remoteTip, loc, calls >>
    /\ UNCHANGED << runnerVars, controllerVars, toolVars >>

\* The steps of side_channel_sync.
EngineStep(h) ==
    \/ SnapshotSeed(h)
    \/ StageSnapshot(h)
    \/ BuildCommit(h)
    \/ Push(h)
    \/ Refetch(h)

Next ==
    \E h \in Hosts :
        \/ Edit(h)
        \/ RunRepo(h)
        \/ Preflight(h)
        \/ SnapshotSeed(h)
        \/ StageSnapshot(h)
        \/ BuildCommit(h)
        \/ Push(h)
        \/ Refetch(h)
        \/ Return(h)

Spec == Init /\ [][Next]_vars

(***************************************************************************)
(* side_channel_sync of one working copy, for both forms of branch_name,   *)
(* with a developer committing in the working copy (SyncSpec)              *)
(***************************************************************************)

\* Bound: commits the developer makes in a working copy.
MaxLocalCommits == 1

\* The number of commits between the initial commit and c.
RECURSIVE LocalCommits(_)
LocalCommits(c) == IF c.parent = None THEN 0 ELSE 1 + LocalCommits(c.parent[1])

\* The developer commits in the working copy of h, at any moment, the working
\* tree's content of some files: HEAD moves to the new commit, and the primary
\* index holds its tree.
DevCommit(h) ==
    /\ LocalCommits(head[h]) < MaxLocalCommits
    /\ \E tree \in [Paths -> UNION { { head[h].tree[p], wt[h][p] } : p \in Paths }] :
          /\ \A p \in Paths : tree[p] \in { head[h].tree[p], wt[h][p] }
          /\ tree # head[h].tree
          /\ head' = [head EXCEPT ![h] = commit_tree(tree, Some(head[h]),
                                                     << "local commit" >>)]
          /\ index' = [index EXCEPT ![h] = tree]
    /\ UNCHANGED << cfg, remotes, wt, snap, tracking, remoteTip, pc, loc, result,
                    calls, trace >>
    /\ UNCHANGED << runnerVars, controllerVars, toolVars >>

\* One clone with the side remote, on the initial commit, its side-channel
\* branch_name given short or as a full ref name; the remote has no side
\* branch, or one seeded from HEAD, or one that holds the commit of another host.
SyncInit ==
    /\ cfg \in [include_untracked : BOOLEAN,
                side_channel : [branch_name : { DefaultBranch, SideBranchRef }]]
    /\ remotes = [h \in Hosts |-> { "origin", SideRemote }]
    /\ head = [h \in Hosts |-> RootCommit]
    /\ index = [h \in Hosts |-> BaseTree]
    /\ wt = [h \in Hosts |-> BaseTree]
    /\ snap = [h \in Hosts |-> None]
    /\ tracking = [h \in Hosts |-> None]
    /\ remoteTip \in { None, Some(RootCommit),
                       Some(commit_tree([BaseTree EXCEPT !["b.txt"] = << Mark(HostNames[2]) >>],
                                        Some(RootCommit),
                                        generate_commit_message(HostNames[2], TRUE))) }
    /\ pc = [h \in Hosts |-> "idle"]
    /\ loc = [h \in Hosts |-> InitLoc]
    /\ result = [h \in Hosts |-> NoResult]
    /\ calls = [h \in Hosts |-> 0]
    /\ trace = [h \in Hosts |-> InitTrace]
    /\ RunnerUnused
    /\ ControllerUnused
    /\ ToolsUnused

SyncNext ==
    \E h \in { HostNames[1] } :
        \/ Edit(h)
        \/ DevCommit(h)
        \/ RunRepo(h)
        \/ Preflight(h)
        \/ SnapshotSeed(h)
        \/ StageSnapshot(h)
        \/ BuildCommit(h)
        \/ Push(h)
        \/ Refetch(h)
        \/ Return(h)

SyncSpec == SyncInit /\ [][SyncNext]_vars

(***************************************************************************)
(* workflow::run and run_repo on the straight path (workflow.rs)           *)
(***************************************************************************)

\* The lists of repositories handed to workflow::run: every list of distinct
\* working copies, the empty list included.
RepoLists ==
    { << >> } \cup { << h >> : h \in Hosts }
              \cup { << g, h >> : << g, h >> \in { p \in Hosts \X Hosts : p[1] # p[2] } }

Listed == { repos[i] : i \in DOMAIN repos }

\* A local commit on top of the initial one that origin does not have yet.
UnpushedCommit(h) ==
    commit_tree([BaseTree EXCEPT !["a.txt"] = << 0, Mark(h) >>], Some(RootCommit),
                << "local work of ", h >>)

\* The working trees of h over a checked-out tree: a.txt untouched, modified or
\* deleted, and the untracked file b.txt absent or present.
WorkingTrees(h, tree) ==
    { [p \in Paths |-> IF p = "a.txt" THEN a ELSE b] :
        a \in { tree["a.txt"], [tree["a.txt"] EXCEPT ![1] = Mark(h)], << >> },
        b \in { << >>, << Mark(h) >> } }

\* The working copies of h: the commit checked out and the working tree.
WorkingCopies(h) ==
    UNION { { [head |-> c, wt |-> w] : w \in WorkingTrees(h, c.tree) } :
              c \in { RootCommit, UnpushedCommit(h) } }

\* RunConfig, with the fields run and run_repo read.
RunConfigs ==
    [push_enabled : BOOLEAN, include_untracked : BOOLEAN,
     side_channel : [enabled : BOOLEAN, branch_name : { DefaultBranch }],
     failure_policy : { "Continue" }]

\* workflow::run is called with a list of repositories and a RunConfig. A listed
\* working copy is on a commit origin has, or one commit ahead of it, with any
\* working tree over it; origin is never ahead of the working copy.
WorkflowInit ==
    /\ cfg \in RunConfigs
    /\ repos \in RepoLists
    /\ remotes = [h \in Hosts |-> { "origin", SideRemote }]
    /\ \E copies \in [Hosts -> UNION { WorkingCopies(h) : h \in Hosts }] :
          /\ \A h \in Hosts : copies[h] \in WorkingCopies(h)
          /\ \A h \in Hosts \ Listed : copies[h] = [head |-> RootCommit, wt |-> BaseTree]
          /\ head = [h \in Hosts |-> copies[h].head]
          /\ index = [h \in Hosts |-> copies[h].head.tree]
          /\ wt = [h \in Hosts |-> copies[h].wt]
    /\ snap = [h \in Hosts |-> None]
    /\ tracking = [h \in Hosts |-> None]
    /\ remoteTip \in { None, Some(RootCommit) }
    /\ pc = [h \in Hosts |-> "idle"]
    /\ loc = [h \in Hosts |-> InitLoc]
    /\ result = [h \in Hosts |-> NoResult]
    /\ calls = [h \in Hosts |-> 0]
    /\ trace = [h \in Hosts |-> InitTrace]
    /\ runner = [pos |-> 1, state |-> "loop"]
    /\ results = << >>
    /\ ops = [h \in Hosts |-> << >>]
    /\ has_changes = [h \in Hosts |-> FALSE]
    /\ origin = [h \in Hosts |-> RootCommit]
    /\ ControllerUnused
    /\ ToolsUnused

\* The repository the loop of workflow::run is at.
Current(h) ==
    /\ runner.state = "loop"
    /\ runner.pos \in DOMAIN repos
    /\ repos[runner.pos] = h

RepoFailed(h, step, err) ==
    Finish(h, [status |-> "Failed", message |-> << step, err >>, sync |-> "none"])

\* A variant that stages, commits and pushes also when push is disabled.
path_ignores_push_enabled(push_enabled, side_channel_enabled) ==
    IF side_channel_enabled THEN "preflight" ELSE "git_stage"

\* A variant that looks at side_channel.enabled before push_enabled.
path_side_channel_first(push_enabled, side_channel_enabled) ==
    IF side_channel_enabled THEN "preflight"
    ELSE IF ~push_enabled THEN "return"
    ELSE "git_stage"

\* run_repo after a successful pull: it returns when push is disabled, takes
\* the side-channel path when the side channel is enabled, and the straight
\* path (stage, commit, push) otherwise. The value is the next step.
path_after_pull(push_enabled, side_channel_enabled) ==
    IF ~push_enabled THEN "return"
    ELSE IF side_channel_enabled THEN "preflight"
    ELSE "git_stage"

\* run_repo up to the choice of the path: git pull --ff-only, which succeeds
\* (the working copy is up to date with origin) or fails; then "pull ok" when
\* push is disabled, the side-channel path when the side channel is enabled,
\* the straight path otherwise.
run_repo(h) ==
    /\ Current(h)
    /\ pc[h] = "idle"
    /\ calls' = [calls EXCEPT ![h] = @ + 1]
    /\ ops' = [ops EXCEPT ![h] = Append(@, "pull")]
    /\ \/ RepoFailed(h, "pull failed: ", "git [\"pull\", \"--ff-only\"] failed")
       \/ LET path == path_after_pull(cfg.push_enabled, cfg.side_channel.enabled)
          IN  IF path = "return"
              THEN Finish(h, [status |-> "Success", message |-> << "pull ok" >>,
                              sync |-> "none"])
              ELSE /\ pc' = [pc EXCEPT ![h] = path]
                   /\ UNCHANGED << result, snap, loc >>
    /\ UNCHANGED << cfg, remotes, head, index, wt, tracking, remoteTip, trace >>
    /\ UNCHANGED << repos, runner, results, has_changes, origin, controllerVars, toolVars >>

\* git::stage_changes: git add -A or git add -u on the repository's own index.
stage_changes(h) ==
    /\ pc[h] = "git_stage"
    /\ ops' = [ops EXCEPT ![h] = Append(@, "stage")]
    /\ \/ /\ RepoFailed(h, "stage failed: ", "git [\"add\"] failed")
          /\ UNCHANGED index
       \/ /\ index' = [index EXCEPT ![h] = StageAdd(@, wt[h], cfg.include_untracked)]
          /\ pc' = [pc EXCEPT ![h] = "git_diff"]
          /\ UNCHANGED << result, snap, loc >>
    /\ UNCHANGED << cfg, remotes, head, wt, tracking, remoteTip, calls, trace >>
    /\ UNCHANGED << repos, runner, results, has_changes, origin, controllerVars, toolVars >>

\* A variant that commits whatever the staged diff is.
step_always_commits(changed) == "git_commit"

\* run_repo after the staged-diff check: the commit when there are staged
\* changes, the push right away when there are none.
step_after_diff(changed) == IF changed THEN "git_commit" ELSE "git_push"

\* git::has_staged_changes: git diff --cached --quiet with no environment; the
\* commit step is next when there are staged changes, the push otherwise.
has_staged_changes(h) ==
    /\ pc[h] = "git_diff"
    /\ ops' = [ops EXCEPT ![h] = Append(@, "diff")]
    /\ \/ /\ RepoFailed(h, "failed to inspect staged diff: ",
                        "git diff --cached --quiet failed")
          /\ UNCHANGED has_changes
       \/ LET changed == has_staged_changes_with_env(DiffCachedQuiet(index[h], head[h]))
          IN  /\ has_changes' = [has_changes EXCEPT ![h] = changed]
              /\ pc' = [pc EXCEPT ![h] = step_after_diff(changed)]
              /\ UNCHANGED << result, snap, loc >>
    /\ UNCHANGED << cfg, remotes, head, index, wt, tracking, remoteTip, calls, trace >>
    /\ UNCHANGED << repos, runner, results, origin, controllerVars, toolVars >>

\* generate_commit_message and git::commit: git commit -m <message> makes the
\* index the tree of a new commit on top of HEAD.
commit(h) ==
    /\ pc[h] = "git_commit"
    /\ ops' = [ops EXCEPT ![h] = Append(@, "commit")]
    /\ \/ /\ RepoFailed(h, "commit failed: ", "git [\"commit\"] failed")
          /\ UNCHANGED head
       \/ /\ head' = [head EXCEPT ![h] =
                         commit_tree(index[h], Some(@),
                                     generate_commit_message(h, cfg.include_untracked))]
          /\ pc' = [pc EXCEPT ![h] = "git_push"]
          /\ UNCHANGED << result, snap, loc >>
    /\ UNCHANGED << cfg, remotes, index, wt, tracking, remoteTip, calls, trace >>
    /\ UNCHANGED << repos, runner, results, has_changes, origin, controllerVars, toolVars >>

\* The RepoResult of a straight-path run whose push succeeded.
pushed_result(changed) ==
    IF changed
    THEN [status |-> "Success", message |-> << "pull ok, committed, pushed" >>,
          sync |-> "none"]
    ELSE [status |-> "NoOp", message |-> << "pull ok, no local changes to commit" >>,
          sync |-> "none"]

\* git::push: git push moves the branch on origin to HEAD, or fails; then the
\* RepoResult of the run.
push(h) ==
    /\ pc[h] = "git_push"
    /\ ops' = [ops EXCEPT ![h] = Append(@, "push")]
    /\ \/ /\ RepoFailed(h, "push failed: ", PushFailedText)
          /\ UNCHANGED origin
       \/ /\ origin' = [origin EXCEPT ![h] = head[h]]
          /\ Finish(h, pushed_result(has_changes[h]))
    /\ UNCHANGED << cfg, remotes, head, index, wt, tracking, remoteTip, calls, trace >>
    /\ UNCHANGED << repos, runner, results, has_changes, controllerVars, toolVars >>

\* A variant of the loop that stops at the first failed repository.
loop_breaks_on_failure(failed, failure_policy) == failed

\* workflow::run: the loop breaks after a failed repository unless the failure
\* policy is Continue.
loop_breaks(failed, failure_policy) == failed /\ failure_policy # "Continue"

\* workflow::run after run_repo returned: the result is pushed onto the list and
\* the loop breaks or goes on to the next repository.
collect(h) ==
    /\ Current(h)
    /\ pc[h] = "done"
    /\ results' = Append(results, [repo |-> h, status |-> result[h].status,
                                   message |-> result[h].message])
    /\ runner' = IF loop_breaks(result[h].status = "Failed", cfg.failure_policy)
                 THEN [runner EXCEPT !.state = "returned"]
                 ELSE [runner EXCEPT !.pos = @ + 1]
    /\ pc' = [pc EXCEPT ![h] = "returned"]
    /\ UNCHANGED << cfg, remotes, head, index, wt, snap, tracking, remoteTip, loc,
                    result, calls, trace >>
    /\ UNCHANGED << repos, ops, has_changes, origin, controllerVars, toolVars >>

\* workflow::run returns the accumulated results when the list is exhausted.
run_returns ==
    /\ runner.state = "loop"
    /\ runner.pos > Len(repos)
    /\ runner' = [runner EXCEPT !.state = "returned"]
    /\ UNCHANGED << engineVars, repos, results, ops, has_changes, origin, controllerVars, toolVars >>

\* workflow::run calls run_repo for one repository after the other on one
\* thread. No other machine pushes while it runs, so a push to the side channel
\* is accepted or fails in transport, and the re-fetch is never needed.
WorkflowNext ==
    \/ \E h \in Hosts :
          \/ run_repo(h)
          \/ stage_changes(h)
          \/ has_staged_changes(h)
          \/ commit(h)
          \/ push(h)
          \/ Preflight(h)
          \/ SnapshotSeed(h)
          \/ StageSnapshot(h)
          \/ BuildCommit(h)
          \/ Push(h)
          \/ collect(h)
    \/ run_returns

WorkflowSpec == WorkflowInit /\ [][WorkflowNext]_vars

(***************************************************************************)
(* The controller: configuration and flag resolution (config.rs) and       *)
(* run_sync (main.rs)                                                      *)
(***************************************************************************)

\* RunArgs, with the flags the resolution reads.
RunArgs ==
    [pull_only : BOOLEAN, push : BOOLEAN, include_untracked : BOOLEAN,
     tracked_only : BOOLEAN, side_channel : BOOLEAN, no_side_channel : BOOLEAN]

\* The contents of the configuration file: text that does not parse, or a
\* PartialConfig whose fields are given or left out. A field that is given has
\* the value that differs from the default.
ConfigFiles ==
    [exists : { TRUE }, parses : { TRUE },
     default_mode : { None, Some("PullOnly") }, push_enabled : { None, Some(FALSE) },
     include_untracked : { None, Some(TRUE) },
     side_channel : [enabled : { None, Some(TRUE) }, remote_name : { None },
                     branch_name : { None }],
     commit_template : { None }, repositories : { None }] \cup
    { [exists |-> TRUE, parses |-> ok, default_mode |-> None, push_enabled |-> None,
       include_untracked |-> None,
       side_channel |-> [enabled |-> None, remote_name |-> name, branch_name |-> None],
       commit_template |-> None, repositories |-> None] :
         ok \in BOOLEAN, name \in { None, Some("") } }

\* The per-repository overrides of a configured repository.
RepositoryConfigs ==
    [include_untracked : { None, Some(TRUE), Some(FALSE) },
     side_channel : [enabled : { None, Some(TRUE), Some(FALSE) }]]

NoOverrides == [include_untracked |-> None, side_channel |-> [enabled |-> None]]

\* The repositories run_sync selects: none, one, or one followed by a
\* repository without overrides.
Selections ==
    { << >> } \cup { << r >> : r \in RepositoryConfigs }
              \cup { << r, NoOverrides >> : r \in RepositoryConfigs }

\* config::defaults
defaults ==
    [default_mode |-> "SyncAll", push_enabled |-> TRUE, include_untracked |-> FALSE,
     side_channel |-> [enabled |-> FALSE, remote_name |-> SideRemote,
                       branch_name |-> "shephard/sync"],
     commit_template |-> "shephard sync: {timestamp} {hostname} [{scope}]",
     failure_policy |-> "Continue", repositories |-> << >>]

OrElse(option, value) == IF option = None THEN value ELSE option[1]

\* str::trim().is_empty() on the strings of the model: the empty string and a
\* string of white space.
trim_is_empty(s) == s \in { "", " " }

\* resolve_repositories: an absolute path as it is, a relative one joined to
\* the directory of the configuration file, "/cfg".
join_config_dir(path) ==
    LET is_absolute == path \in { "/r1", "/r1/.", "/r3", "/cfg", "/cfg/r2" }
    IN  IF is_absolute THEN path
        ELSE IF path = "r2" THEN "/cfg/r2" ELSE "/cfg"

\* config::canonicalize_repo_path: Path::canonicalize, or the path itself
\* when that fails. "/r1/." names the directory "/r1".
canonicalize_repo_path(path) == IF path = "/r1/." THEN "/r1" ELSE path

\* state::canonical_repo_key, config::canonical_repo_key
canonical_repo_key(path) == canonicalize_repo_path(path)

\* config::resolve_repositories: the repository entries of the file with
\* their canonical paths, or None for an entry with an empty path or with the
\* canonical path of an earlier entry.
resolve_repositories(partials) ==
    LET resolved_path(i) == join_config_dir(partials[i].path)
        no_overrides == [enabled |-> None, remote_name |-> None, branch_name |-> None]
        canonical_path(i) == canonicalize_repo_path(resolved_path(i))
        key(i) == canonical_repo_key(canonical_path(i))
        bails(i) == \/ partials[i].path = ""
                    \/ \E j \in 1..(i - 1) : key(j) = key(i)
    IN  IF \E i \in DOMAIN partials : bails(i) THEN None
        ELSE Some([i \in DOMAIN partials |->
                      [path |-> canonical_path(i),
                       enabled |-> OrElse(partials[i].enabled, TRUE),
                       include_untracked |-> partials[i].include_untracked,
                       side_channel |-> OrElse(partials[i].side_channel, no_overrides)]])

\* A variant of validate that looks at the global fields only.
validate_global_only(c) ==
    /\ ~trim_is_empty(c.side_channel.remote_name)
    /\ ~trim_is_empty(c.side_channel.branch_name)
    /\ ~trim_is_empty(c.commit_template)

\* config::validate
validate(c) ==
    /\ ~trim_is_empty(c.side_channel.remote_name)
    /\ ~trim_is_empty(c.side_channel.branch_name)
    /\ ~trim_is_empty(c.commit_template)
    /\ \A i \in DOMAIN c.repositories :
          LET repo == c.repositories[i]
          IN  /\ repo.path # ""
              /\ \A j \in 1..(i - 1) :
                    canonical_repo_key(c.repositories[j].path) # canonical_repo_key(repo.path)
              /\ ~(repo.side_channel.remote_name # None
                    /\ trim_is_empty(repo.side_channel.remote_name[1]))
              /\ ~(repo.side_channel.branch_name # None
                    /\ trim_is_empty(repo.side_channel.branch_name[1]))

\* config::load: the defaults when there is no file, otherwise the defaults
\* with the fields of the file on top, validated. The value is the
\* ResolvedConfig, or None for an error.
load(file) ==
    IF ~file.exists THEN Some(defaults)
    ELSE IF ~file.parses THEN None
    ELSE LET repositories ==
                 IF file.repositories = None THEN Some(defaults.repositories)
                 ELSE resolve_repositories(file.repositories[1])
             c == [default_mode |-> OrElse(file.default_mode, defaults.default_mode),
                   push_enabled |-> OrElse(file.push_enabled, defaults.push_enabled),
                   include_untracked |->
                       OrElse(file.include_untracked, defaults.include_untracked),
                   side_channel |->
                       [enabled |-> OrElse(file.side_channel.enabled,
                                           defaults.side_channel.enabled),
                        remote_name |-> OrElse(file.side_channel.remote_name,
                                               defaults.side_channel.remote_name),
                        branch_name |-> OrElse(file.side_channel.branch_name,
                                               defaults.side_channel.branch_name)],
                   commit_template |->
                       OrElse(file.commit_template, defaults.commit_template),
                   failure_policy |-> defaults.failure_policy,
                   repositories |-> IF repositories = None THEN << >>
                                    ELSE repositories[1]]
         IN  IF repositories = None THEN None
             ELSE IF validate(c) THEN Some(c) ELSE None

\* A variant that does not look at the side-channel pair.
validate_two_pairs(a) ==
    /\ ~(a.pull_only /\ a.push)
    /\ ~(a.include_untracked /\ a.tracked_only)

\* config::validate_run_args: TRUE for Ok, FALSE for an error.
validate_run_args(a) ==
    /\ ~(a.pull_only /\ a.push)
    /\ ~(a.include_untracked /\ a.tracked_only)
    /\ ~(a.side_channel /\ a.no_side_channel)

\* config::apply_cli_overrides
apply_cli_overrides(c, a) ==
    LET c1 == IF a.include_untracked THEN [c EXCEPT !.include_untracked = TRUE] ELSE c
        c2 == IF a.tracked_only THEN [c1 EXCEPT !.include_untracked = FALSE] ELSE c1
        c3 == IF a.side_channel THEN [c2 EXCEPT !.side_channel.enabled = TRUE] ELSE c2
    IN  IF a.no_side_channel THEN [c3 EXCEPT !.side_channel.enabled = FALSE] ELSE c3

\* config::apply_repo_side_channel_overrides
apply_repo_side_channel_overrides(side_channel, overrides) ==
    IF overrides.enabled # None
    THEN [side_channel EXCEPT !.enabled = overrides.enabled[1]]
    ELSE side_channel

\* config::apply_repo_overrides
apply_repo_overrides(c, r) ==
    LET c1 == IF r.include_untracked # None
              THEN [c EXCEPT !.include_untracked = r.include_untracked[1]]
              ELSE c
    IN  [c1 EXCEPT !.side_channel =
                       apply_repo_side_channel_overrides(@, r.side_channel)]

\* A variant that keeps the configuration's push_enabled in pull-only mode.
push_enabled_of_config(mode, base_push_enabled) == base_push_enabled

\* resolve_run_config: push_enabled by run mode.
push_enabled_for(mode, base_push_enabled) ==
    IF mode = "PullOnly" THEN FALSE ELSE base_push_enabled

\* config::resolve_run_config: the ResolvedRunConfig, or None for an error.
resolve_run_config(base, a) ==
    IF ~validate_run_args(a) THEN None
    ELSE LET mode1 == IF a.pull_only THEN "PullOnly" ELSE base.default_mode
             mode == IF a.push THEN "SyncAll" ELSE mode1
             resolved == [push_enabled |-> push_enabled_for(mode, base.push_enabled),
                          include_untracked |-> base.include_untracked,
                          side_channel |-> base.side_channel,
                          failure_policy |-> base.failure_policy]
         IN  Some(apply_cli_overrides(resolved, a))

\* A variant that applies the per-repository overrides last.
repo_overrides_last(base, a, r) == apply_repo_overrides(apply_cli_overrides(base, a), r)

\* config::resolve_repo_run_config
resolve_repo_run_config(base, a, r) == apply_cli_overrides(apply_repo_overrides(base, r), a)

\* A variant that reports a failure only when every repository failed.
exit_code_all_failed(rs) ==
    IF rs # << >> /\ \A i \in DOMAIN rs : rs[i] = "Failed" THEN 1 ELSE 0

\* report::exit_code
exit_code(rs) == IF \E i \in DOMAIN rs : rs[i] = "Failed" THEN 1 ELSE 0

RepoStatus == { "Success", "NoOp", "Failed" }

\* workflow::run_with_repo_configs: one result per run target, in order.
run_with_repo_configs(run_targets) == [1..Len(run_targets) -> RepoStatus]

\* run_sync before config::load.
MainStart ==
    [pc |-> "load", cfg |-> None, base_run_cfg |-> None, next |-> 1,
     run_targets |-> << >>, results |-> << >>, exit_code |-> None]

\* The process is started with flags, a configuration file and the
\* repositories the selection yields.
ConfigInit ==
    /\ args \in RunArgs
    /\ config \in ConfigFiles
    /\ selected \in Selections
    /\ main = MainStart
    /\ cfg = [include_untracked |-> FALSE]
    /\ remotes = [h \in Hosts |-> { "origin" }]
    /\ head = [h \in Hosts |-> RootCommit]
    /\ index = [h \in Hosts |-> BaseTree]
    /\ wt = [h \in Hosts |-> BaseTree]
    /\ snap = [h \in Hosts |-> None]
    /\ tracking = [h \in Hosts |-> None]
    /\ remoteTip = None
    /\ pc = [h \in Hosts |-> "idle"]
    /\ loc = [h \in Hosts |-> InitLoc]
    /\ result = [h \in Hosts |-> NoResult]
    /\ calls = [h \in Hosts |-> 0]
    /\ trace = [h \in Hosts |-> InitTrace]
    /\ RunnerUnused
    /\ ToolsUnused

\* main: the process exits with the code of run(), or 2 for an error.
Exit(code) == main' = [main EXCEPT !.pc = "exit", !.exit_code = Some(code)]

ControllerFrame == UNCHANGED << engineVars, runnerVars, args, config, selected, toolVars >>

\* run_sync: config::load()?
Load ==
    /\ main.pc = "load"
    /\ LET loaded == load(config)
       IN  IF loaded = None THEN Exit(2)
           ELSE main' = [main EXCEPT !.pc = "resolve", !.cfg = loaded]
    /\ ControllerFrame

\* run_sync: config::resolve_run_config(&cfg, args)?, and the return with 0
\* when no repository is selected.
ResolveRunConfig ==
    /\ main.pc = "resolve"
    /\ LET resolved == resolve_run_config(main.cfg[1], args)
       IN  IF resolved = None THEN Exit(2)
           ELSE IF selected = << >> THEN main' = [main EXCEPT !.pc = "exit",
                                                       !.base_run_cfg = resolved,
                                                       !.exit_code = Some(0)]
           ELSE main' = [main EXCEPT !.pc = "targets", !.base_run_cfg = resolved]
    /\ ControllerFrame

\* run_sync: one pass of the loop over the selected repositories: a path that
\* is not a git repository is skipped, another one gets its run configuration.
ResolveRepo ==
    /\ main.pc = "targets"
    /\ main.next \in DOMAIN selected
    /\ \E is_git_repo \in BOOLEAN :
          main' = [main EXCEPT
                     !.next = @ + 1,
                     !.run_targets =
                         IF is_git_repo
                         THEN Append(@, [repo |-> main.next,
                                         run_cfg |-> resolve_repo_run_config(
                                                        main.base_run_cfg[1], args,
                                                        selected[main.next])])
                         ELSE @]
    /\ ControllerFrame

\* run_sync after the loop: 0 when there is no run target, otherwise the
\* workflow runs and the exit code is report::exit_code of its results.
RunTargets ==
    /\ main.pc = "targets"
    /\ main.next > Len(selected)
    /\ IF main.run_targets = << >> THEN Exit(0)
       ELSE \E rs \in run_with_repo_configs(main.run_targets) :
               main' = [main EXCEPT !.pc = "exit", !.results = rs,
                                    !.exit_code = Some(exit_code(rs))]
    /\ ControllerFrame

ConfigNext == Load \/ ResolveRunConfig \/ ResolveRepo \/ RunTargets

ConfigSpec == ConfigInit /\ [][ConfigNext]_vars

(***************************************************************************)
(* config::load and the choice of the run targets (config.rs, main.rs)     *)
(***************************************************************************)

\* The engine's variables in a behaviour that never reaches a repository.
EngineUnused ==
    /\ cfg = [include_untracked |-> FALSE]
    /\ remotes = [h \in Hosts |-> { "origin" }]
    /\ head = [h \in Hosts |-> RootCommit]
    /\ index = [h \in Hosts |-> BaseTree]
    /\ wt = [h \in Hosts |-> BaseTree]
    /\ snap = [h \in Hosts |-> None]
    /\ tracking = [h \in Hosts |-> None]
    /\ remoteTip = None
    /\ pc = [h \in Hosts |-> "idle"]
    /\ loc = [h \in Hosts |-> InitLoc]
    /\ result = [h \in Hosts |-> NoResult]
    /\ calls = [h \in Hosts |-> 0]
    /\ trace = [h \in Hosts |-> InitTrace]

\* The configuration files load reads: no file, a file that does not parse,
\* files with global fields only, and files with up to two repositories. In a
\* repository entry "r2" is relative to the directory of the file and "/r1/."
\* is another name of "/r1".
LoadFiles ==
    LET RepositoryEntries ==
            [path : { "", "/r1", "/r1/.", "/cfg/r2", "r2" },
             enabled : { None, Some(FALSE) },
             include_untracked : { None },
             side_channel : { None,
                              Some([enabled |-> None, remote_name |-> Some(""),
                                    branch_name |-> None]),
                              Some([enabled |-> None, remote_name |-> Some(" "),
                                    branch_name |-> None]),
                              Some([enabled |-> None, remote_name |-> None,
                                    branch_name |-> Some("")]) }]
        file(exists, parses, remote_name, branch_name, template, repositories) ==
            [exists |-> exists, parses |-> parses, default_mode |-> None,
             push_enabled |-> None, include_untracked |-> None,
             side_channel |-> [enabled |-> None, remote_name |-> remote_name,
                               branch_name |-> branch_name],
             commit_template |-> template, repositories |-> repositories]
    IN  { file(FALSE, TRUE, None, None, None, None),
          file(TRUE, FALSE, None, None, None, None) } \cup
        { file(TRUE, TRUE, remote_name, branch_name, template, None) :
            remote_name \in { None, Some(""), Some(" ") },
            branch_name \in { None, Some("") },
            template \in { None, Some("") } } \cup
        { file(TRUE, TRUE, None, None, None, Some(<< >>)) } \cup
        { file(TRUE, TRUE, None, None, None, Some(<< a >>)) : a \in RepositoryEntries } \cup
        { file(TRUE, TRUE, None, None, None, Some(<< a, b >>)) :
            a \in RepositoryEntries, b \in RepositoryEntries }

\* config::enabled_repositories
enabled_repositories(c) == SelectSeq(c.repositories, LAMBDA repo : repo.enabled)

\* A variant that matches the given paths against every configured repository.
targets_include_disabled(a, enabled, all_repositories) ==
    IF a.repos = << >> THEN enabled
    ELSE LET selects(i) ==
                 /\ \A j \in 1..(i - 1) :
                       canonical_repo_key(a.repos[j]) # canonical_repo_key(a.repos[i])
                 /\ \E k \in DOMAIN all_repositories :
                       canonical_repo_key(all_repositories[k].path) = canonical_repo_key(a.repos[i])
             RECURSIVE from(_)
             from(i) ==
                 IF i > Len(a.repos) THEN << >>
                 ELSE IF selects(i)
                      THEN << CHOOSE repo \in { all_repositories[k] : k \in DOMAIN all_repositories } :
                                canonical_repo_key(repo.path) = canonical_repo_key(a.repos[i]) >>
                           \o from(i + 1)
                      ELSE from(i + 1)
         IN  from(1)

\* main::resolve_configured_targets: the loop over args.repos keeps the keys
\* it has seen; enabled_by_key holds, for a key, the last enabled repository
\* with that key.
resolve_configured_targets(a, enabled, all_repositories) ==
    IF a.repos = << >> THEN enabled
    ELSE LET enabled_by_key(key) ==
                 LET at == { k \in DOMAIN enabled : canonical_repo_key(enabled[k].path) = key }
                 IN  IF at = { } THEN None
                     ELSE Some(enabled[CHOOSE k \in at : \A l \in at : l <= k])
             RECURSIVE loop(_, _)
             loop(i, seen) ==
                 IF i > Len(a.repos) THEN << >>
                 ELSE LET key == canonical_repo_key(a.repos[i])
                      IN  IF key \in seen THEN loop(i + 1, seen)
                          ELSE IF enabled_by_key(key) # None
                               THEN << enabled_by_key(key)[1] >> \o loop(i + 1, seen \cup { key })
                               ELSE loop(i + 1, seen \cup { key })
         IN  loop(1, { })

\* The process is started with --repos paths and a configuration file.
LoadInit ==
    /\ LET given == { "/r1", "/r1/.", "/cfg/r2", "/r3" }
       IN  args \in [repos : { << >> } \cup { << a >> : a \in given }
                                \cup { << a, b >> : a \in given, b \in given }]
    /\ config \in LoadFiles
    /\ selected = << >>
    /\ main = [pc |-> "load", cfg |-> None, exit_code |-> None]
    /\ EngineUnused
    /\ RunnerUnused
    /\ ToolsUnused

\* run_sync: config::load()?; main exits with 2 for an error.
LoadConfig ==
    /\ main.pc = "load"
    /\ LET loaded == load(config)
       IN  IF loaded = None THEN Exit(2)
           ELSE main' = [main EXCEPT !.pc = "select", !.cfg = loaded]
    /\ UNCHANGED << engineVars, runnerVars, args, config, selected, toolVars >>

\* run_sync: enabled_repositories, resolve_configured_targets, and the return
\* with 0 when no repository is selected.
SelectTargets ==
    /\ main.pc = "select"
    /\ selected' = resolve_configured_targets(args, enabled_repositories(main.cfg[1]),
                                              main.cfg[1].repositories)
    /\ IF selected' = << >> THEN Exit(0)
       ELSE main' = [main EXCEPT !.pc = "targets"]
    /\ UNCHANGED << engineVars, runnerVars, args, config, toolVars >>

LoadNext == LoadConfig \/ SelectTargets

LoadSpec == LoadInit /\ [][LoadNext]_vars

(***************************************************************************)
(* The interactive selector (tui.rs) and the selection state (state.rs)    *)
(***************************************************************************)

\* App::new
AppNew(discovered, st, base_run_config) ==
    [repos |-> [i \in DOMAIN discovered |->
                   [path |-> discovered[i],
                    selected |-> IF canonical_repo_key(discovered[i]) \in DOMAIN st
                                 THEN st[canonical_repo_key(discovered[i])]
                                 ELSE TRUE]],
     repo_cursor |-> 0,
     screen |-> "RepoSelection",
     run_mode_cursor |-> IF base_run_config.push_enabled THEN 0 ELSE 1,
     include_untracked_cursor |-> IF base_run_config.include_untracked THEN 0 ELSE 1,
     side_channel_cursor |-> IF base_run_config.side_channel.enabled THEN 0 ELSE 1,
     base_run_config |-> base_run_config]

\* AppTransition, together with the App that handle_key leaves; the selection
\* is set by Complete.
AppTransition(transition, a) == [app |-> a, transition |-> transition, selection |-> None]

\* A variant that takes side_channel.enabled from the cursor of the
\* side-channel screen alone.
build_selection_by_cursor(a, push_enabled) ==
    [selected_repos |->
         LET chosen == SelectSeq(a.repos, LAMBDA repo : repo.selected)
         IN  [i \in DOMAIN chosen |-> chosen[i].path],
     run_config |->
         [a.base_run_config EXCEPT
            !.push_enabled = push_enabled,
            !.include_untracked = (a.include_untracked_cursor = 0),
            !.side_channel.enabled = (a.side_channel_cursor = 0)]]

\* App::build_selection
build_selection(a, push_enabled) ==
    [selected_repos |->
         LET chosen == SelectSeq(a.repos, LAMBDA repo : repo.selected)
         IN  [i \in DOMAIN chosen |-> chosen[i].path],
     run_config |->
         [a.base_run_config EXCEPT
            !.push_enabled = push_enabled,
            !.include_untracked = (a.include_untracked_cursor = 0),
            !.side_channel.enabled = (push_enabled /\ a.side_channel_cursor = 0)]]

\* The cursor of a two-item screen after a key.
move_cursor(cursor, code) ==
    IF code \in { "Up", "Left" } THEN (IF cursor > 0 THEN cursor - 1 ELSE cursor)
    ELSE IF code \in { "Down", "Right" } THEN (IF cursor < 1 THEN cursor + 1 ELSE cursor)
    ELSE cursor

\* A variant that handles the keys of the repository screen for an empty list
\* as for any other.
handle_repo_key_unguarded(a, code) ==
    CASE code = "Up" ->
           AppTransition("Continue",
                         [a EXCEPT !.repo_cursor = IF @ > 0 THEN @ - 1 ELSE @])
      [] code = "Down" ->
           AppTransition("Continue",
                         [a EXCEPT !.repo_cursor =
                                     IF @ + 1 < Len(a.repos) THEN @ + 1 ELSE @])
      [] code = "Space" ->
           AppTransition("Continue",
                         IF a.repo_cursor + 1 \in DOMAIN a.repos
                         THEN [a EXCEPT !.repos[a.repo_cursor + 1].selected = ~@]
                         ELSE a)
      [] code = "a" ->
           LET select_all == \E i \in DOMAIN a.repos : ~a.repos[i].selected
           IN  AppTransition("Continue",
                             [a EXCEPT !.repos =
                                 [i \in DOMAIN a.repos |->
                                     [a.repos[i] EXCEPT !.selected = select_all]]])
      [] code = "Enter" -> AppTransition("Continue", [a EXCEPT !.screen = "RunMode"])
      [] OTHER -> AppTransition("Continue", a)

\* App::handle_repo_key
handle_repo_key(a, code) ==
    IF a.repos = << >> THEN AppTransition("Continue", a)
    ELSE CASE code = "Up" ->
                AppTransition("Continue",
                              [a EXCEPT !.repo_cursor = IF @ > 0 THEN @ - 1 ELSE @])
           [] code = "Down" ->
                AppTransition("Continue",
                              [a EXCEPT !.repo_cursor =
                                          IF @ + 1 < Len(a.repos) THEN @ + 1 ELSE @])
           [] code = "Space" ->
                AppTransition("Continue",
                              IF a.repo_cursor + 1 \in DOMAIN a.repos
                              THEN [a EXCEPT !.repos[a.repo_cursor + 1].selected = ~@]
                              ELSE a)
           [] code = "a" ->
                LET select_all == \E i \in DOMAIN a.repos : ~a.repos[i].selected
                IN  AppTransition("Continue",
                                  [a EXCEPT !.repos =
                                      [i \in DOMAIN a.repos |->
                                          [a.repos[i] EXCEPT !.selected = select_all]]])
           [] code = "Enter" -> AppTransition("Continue", [a EXCEPT !.screen = "RunMode"])
           [] OTHER -> AppTransition("Continue", a)

\* A variant of the run-mode screen on which Enter always goes on to the next
\* screen.
run_mode_never_completes(a, code) ==
    IF code = "Enter" THEN AppTransition("Continue", [a EXCEPT !.screen = "IncludeUntracked"])
    ELSE AppTransition("Continue", [a EXCEPT !.run_mode_cursor = move_cursor(@, code)])

\* App::handle_run_mode_key
handle_run_mode_key(a, code) ==
    IF code = "Enter"
    THEN IF a.run_mode_cursor = 1 THEN [AppTransition("Complete", a) EXCEPT
                  !.selection = Some(build_selection(a, FALSE))]
         ELSE AppTransition("Continue", [a EXCEPT !.screen = "IncludeUntracked"])
    ELSE AppTransition("Continue", [a EXCEPT !.run_mode_cursor = move_cursor(@, code)])

\* App::handle_include_untracked_key
handle_include_untracked_key(a, code) ==
    IF code = "Enter" THEN AppTransition("Continue", [a EXCEPT !.screen = "SideChannel"])
    ELSE AppTransition("Continue",
                       [a EXCEPT !.include_untracked_cursor = move_cursor(@, code)])

\* App::handle_side_channel_key
handle_side_channel_key(a, code) ==
    IF code = "Enter"
    THEN [AppTransition("Complete", a) EXCEPT !.selection = Some(build_selection(a, TRUE))]
    ELSE AppTransition("Continue", [a EXCEPT !.side_channel_cursor = move_cursor(@, code)])

\* App::handle_key
handle_key(a, code) ==
    IF code \in { "Esc", "q", "Q" } THEN AppTransition("Cancel", a)
    ELSE CASE a.screen = "RepoSelection" -> handle_repo_key(a, code)
           [] a.screen = "RunMode" -> handle_run_mode_key(a, code)
           [] a.screen = "IncludeUntracked" -> handle_include_untracked_key(a, code)
           [] a.screen = "SideChannel" -> handle_side_channel_key(a, code)

\* A variant that records the selected repositories only.
insert_selected_only(st, discovered, selection) ==
    LET selected_repo_keys ==
            { canonical_repo_key(selection.selected_repos[i]) :
                i \in DOMAIN selection.selected_repos }
    IN  [key \in DOMAIN st \cup selected_repo_keys |->
            IF key \in selected_repo_keys THEN TRUE ELSE st[key]]

\* select_and_configure_run, the loop under persist_selection: the state with
\* an entry inserted for every repository handed to the selector.
insert_selection(st, discovered, selection) ==
    LET selected_repo_keys ==
            { canonical_repo_key(selection.selected_repos[i]) :
                i \in DOMAIN selection.selected_repos }
        keys == { canonical_repo_key(discovered[i]) : i \in DOMAIN discovered }
    IN  [key \in DOMAIN st \cup keys |->
            IF key \in keys THEN key \in selected_repo_keys ELSE st[key]]

\* A variant that writes the state whatever the outcome is.
state_written_on_cancel(outcome, st, discovered, persist_selection) ==
    IF persist_selection
    THEN [k \in DOMAIN st \cup { canonical_repo_key(discovered[i]) : i \in DOMAIN discovered } |-> TRUE]
    ELSE st

\* select_and_configure_run after run_ui returned: the State it leaves.
state_after(outcome, st, discovered, persist_selection) ==
    IF outcome.transition = "Cancel" THEN st
    ELSE IF persist_selection THEN insert_selection(st, discovered, outcome.selection[1])
    ELSE st

\* select_and_configure_run is called with the repositories discovered
\* (canonical, distinct paths), the State loaded, a run configuration and the
\* persistence switch; the selector is on its first screen. State.selected_repos
\* is a map from canonical paths to booleans; "/r9" is a repository of an
\* earlier run that is not discovered in this one.
TuiInit ==
    /\ \E discovered \in { << >>, << "/r1" >>, << "/r1", "/r2" >> },
          base_run_config \in RunConfigs, persist_selection \in BOOLEAN :
          /\ state \in UNION { [keys -> BOOLEAN] : keys \in SUBSET { "/r1", "/r9" } }
          /\ app = [ui |-> AppNew(discovered, state, base_run_config),
                    repos |-> discovered,
                    persist_selection |-> persist_selection,
                    key |-> "none",
                    outcome |-> "Running",
                    returned |-> None]
    /\ walk = << >> /\ applyRun = << >> /\ stdout = << >>
    /\ EngineUnused
    /\ RunnerUnused
    /\ ControllerUnused

\* run_ui: one key press goes to handle_key ("Other" is a key that no handler
\* names); Cancel and Complete end the loop,
\* and select_and_configure_run returns None, or writes the State and returns
\* the selection.
KeyPress ==
    /\ app.outcome = "Running"
    /\ \E code \in { "Esc", "q", "Q", "Up", "Down", "Left", "Right", "Space", "a", "Enter",
                      "Other" } :
          LET outcome == handle_key(app.ui, code)
          IN  /\ app' = [app EXCEPT
                           !.ui = outcome.app,
                           !.key = code,
                           !.outcome = CASE outcome.transition = "Continue" -> "Running"
                                         [] outcome.transition = "Cancel" -> "Cancelled"
                                         [] outcome.transition = "Complete" -> "Complete",
                           !.returned = outcome.selection]
              /\ state' = IF outcome.transition = "Continue" THEN state
                          ELSE state_after(outcome, state, app.repos, app.persist_selection)
    /\ UNCHANGED << engineVars, runnerVars, controllerVars, walk, applyRun, stdout >>

TuiNext == KeyPress

TuiSpec == TuiInit /\ [][TuiNext]_vars

(***************************************************************************)
(* Discovery (discovery.rs)                                                *)
(***************************************************************************)

\* A path is the sequence of its components. The directories that exist when
\* the directories of `marked` contain a .git entry: a tree with a nested and
\* a hidden directory; the .git entry of "a" is a directory with a directory
\* inside, the other ones are files.
Dirs(marked) ==
    { << "w" >>, << "w", "a" >>, << "w", "a", "b" >>, << "w", ".h" >>, << "w", ".h", "r" >> }
    \cup (IF << "w", "a" >> \in marked
          THEN { << "w", "a", ".git" >>, << "w", "a", ".git", "m" >> }
          ELSE { })

\* Path::canonicalize: "." components are removed.
canonicalize(path) == SelectSeq(path, LAMBDA name : name # ".")

\* Path::starts_with
starts_with(path, base) ==
    Len(base) <= Len(path) /\ \A i \in DOMAIN base : path[i] = base[i]

\* DirEntry::file_name: the last component that is not ".".
file_name(path) == LET c == canonicalize(path) IN c[Len(c)]

\* discovery::is_hidden
is_hidden(path) == file_name(path) \in { ".", ".git", ".h" }

\* A variant that descends into hidden directories whatever the switch says.
should_descend_hidden(path, depth, descend_hidden_dirs) ==
    file_name(path) # ".git"

\* discovery::should_descend
should_descend(path, depth, descend_hidden_dirs) ==
    IF file_name(path) = ".git" THEN FALSE
    ELSE IF descend_hidden_dirs \/ depth = 0 THEN TRUE
    ELSE ~is_hidden(path)

\* discovery::is_git_repository
is_git_repository(path, marked) == canonicalize(path) \in marked

\* WalkDir::new(root).follow_links(false).into_iter().filter_entry(..): the
\* directories the walk yields are the root and the directories below it all
\* of whose ancestors up to the root, and they themselves, pass the filter.
walk_dir(root, marked, descend_hidden_dirs) ==
    LET base == canonicalize(root)
        entry(dir) == root \o SubSeq(dir, Len(base) + 1, Len(dir))
        passes(dir) ==
            \A depth \in 0..(Len(dir) - Len(base)) :
               should_descend(SubSeq(entry(dir), 1, Len(root) + depth), depth,
                              descend_hidden_dirs)
    IN  { entry(dir) : dir \in { d \in Dirs(marked) : starts_with(d, base) /\ passes(d) } }

\* Ord of Path: component by component, the names in the order of strings.
RECURSIVE path_less(_, _)
path_less(p, q) ==
    LET order == << ".", ".git", ".h", "a", "b", "gone", "m", "r", "w" >>
        rank(name) == CHOOSE i \in DOMAIN order : order[i] = name
    IN  IF p = << >> THEN q # << >>
        ELSE IF q = << >> THEN FALSE
        ELSE IF Head(p) = Head(q) THEN path_less(Tail(p), Tail(q))
        ELSE rank(Head(p)) < rank(Head(q))

\* BTreeSet::into_iter
RECURSIVE into_sorted(_)
into_sorted(found) ==
    IF found = { } THEN << >>
    ELSE LET least == CHOOSE p \in found : \A q \in found \ { p } : path_less(p, q)
         IN  << least >> \o into_sorted(found \ { least })

\* discover_repositories is called for a file system in which any of the
\* directories may contain a .git entry, with up to two roots: the tree,
\* another name of it, two directories inside it, or a path that does not exist.
DiscoveryInit ==
    /\ \E marked \in SUBSET (Dirs({ << "w", "a" >> }) \ { << "w", "a", ".git" >> }),
          roots \in LET given == { << "w" >>, << "w", "." >>, << "w", "a" >>,
                                   << "w", ".h" >>, << "gone" >> }
                    IN  { << >> } \cup { << r >> : r \in given }
                                 \cup { << r, t >> : r \in given, t \in given },
          descend_hidden_dirs \in BOOLEAN :
          /\ << "w", "a", ".git", "m" >> \in marked => << "w", "a" >> \in marked
          /\ walk = [marked |-> marked, roots |-> roots,
                     descend_hidden_dirs |-> descend_hidden_dirs,
                     next |-> 1, found |-> { }, returned |-> None]
    /\ app = << >> /\ state = << >> /\ applyRun = << >> /\ stdout = << >>
    /\ EngineUnused
    /\ RunnerUnused
    /\ ControllerUnused

\* discover_repositories: one pass of the loop over the roots.
WalkRoot ==
    /\ walk.returned = None
    /\ walk.next \in DOMAIN walk.roots
    /\ LET root == walk.roots[walk.next]
           candidates == walk_dir(root, walk.marked, walk.descend_hidden_dirs)
       IN  walk' = [walk EXCEPT
                      !.next = @ + 1,
                      !.found = IF canonicalize(root) \notin Dirs(walk.marked) THEN @
                                ELSE @ \cup { canonicalize(candidate) :
                                                candidate \in { c \in candidates :
                                                    is_git_repository(c, walk.marked) } }]
    /\ UNCHANGED << engineVars, runnerVars, controllerVars, app, state, applyRun, stdout >>

\* discover_repositories after the loop: the repositories in the order of the
\* set.
ReturnRepos ==
    /\ walk.returned = None
    /\ walk.next > Len(walk.roots)
    /\ walk' = [walk EXCEPT !.returned = Some(into_sorted(walk.found))]
    /\ UNCHANGED << engineVars, runnerVars, controllerVars, app, state, applyRun, stdout >>

DiscoveryNext == WalkRoot \/ ReturnRepos

DiscoverySpec == DiscoveryInit /\ [][DiscoveryNext]_vars

(***************************************************************************)
(* shephard apply (apply.rs, git.rs)                                       *)
(***************************************************************************)

\* git refuses to touch a file with local changes: the working tree after the
\* checked-out tree goes from `from` to `to`, or None when a file that differs
\* between the two is modified in the working tree.
update_worktree(work, from, to) ==
    IF \E p \in Paths : to[p] # from[p] /\ work[p] # from[p] THEN None
    ELSE Some([p \in Paths |-> IF to[p] # from[p] THEN to[p] ELSE work[p]])

\* git::merge_side_channel_ff: git merge --ff-only <remote>/<branch>, which
\* fails when there is no such ref, when the branch has diverged, and when local
\* changes are in the way.
merge_side_channel_ff(h) ==
    LET target == tracking[h][1]
        work == update_worktree(wt[h], head[h].tree, target.tree)
        unchanged == [head |-> head[h], index |-> index[h], wt |-> wt[h]]
    IN  IF tracking[h] = None \/ ~is_ancestor(head[h], target) \/ work = None
        THEN [err |-> << "git [\"merge\", \"--ff-only\"] failed" >>] @@ unchanged
        ELSE [err |-> << >>, head |-> target, index |-> target.tree, wt |-> work[1]]

\* git::cherry_pick_side_channel_tip: git rev-parse <remote>/<branch>, then
\* git cherry-pick <commit>. A pick that conflicts leaves the conflict in the
\* index and the working tree; a pick that changes nothing fails.
cherry_pick_side_channel_tip(h) ==
    LET tip == tracking[h][1]
        base == IF tip.parent = None THEN EmptyTree ELSE tip.parent[1].tree
        picked == MergeTree(base, head[h].tree, tip.tree)
        work == update_worktree(wt[h], head[h].tree, picked.tree)
        failed == << "git [\"cherry-pick\"] failed" >>
        unchanged == [head |-> head[h], index |-> index[h], wt |-> wt[h]]
    IN  IF tracking[h] = None THEN [err |-> << "git [\"rev-parse\"] failed" >>] @@ unchanged
        ELSE IF work = None \/ picked.tree = head[h].tree THEN [err |-> failed] @@ unchanged
        ELSE IF ~picked.success
        THEN [err |-> failed, head |-> head[h], index |-> picked.tree, wt |-> work[1]]
        ELSE [err |-> << >>, head |-> commit_tree(picked.tree, Some(head[h]), tip.msg),
              index |-> picked.tree, wt |-> work[1]]

\* git::squash_merge_side_channel: git merge --squash <remote>/<branch>. The
\* merged changes are staged, no commit is made.
squash_merge_side_channel(h) ==
    LET target == tracking[h][1]
        base == merge_base(head[h], target)
        merged == MergeTree(base[1].tree, head[h].tree, target.tree)
        work == update_worktree(wt[h], head[h].tree, merged.tree)
        failed == << "git [\"merge\", \"--squash\"] failed" >>
        unchanged == [head |-> head[h], index |-> index[h], wt |-> wt[h]]
    IN  IF tracking[h] = None THEN [err |-> failed] @@ unchanged
        ELSE IF is_ancestor(target, head[h]) THEN [err |-> << >>] @@ unchanged
        ELSE IF work = None THEN [err |-> failed] @@ unchanged
        ELSE [err |-> IF merged.success THEN << >> ELSE failed,
              head |-> head[h], index |-> merged.tree, wt |-> work[1]]

\* A variant of the ? operator that goes on after an error.
error_ignored(err, next) == next

\* The ? operator in apply::run: the step after a call, "failed" for an error.
propagate(err, next) == IF err = << >> THEN next ELSE "failed"

\* apply::run is called with a method, for a path that is a directory or not,
\* in a working copy of the first host with or without the side-channel remote; the side branch
\* of the remote is missing or holds a commit of another host on top of the
\* initial commit, and the remote-tracking ref is unset or stale.
ApplyInit ==
    /\ \E method \in { "Merge", "CherryPick", "Squash" }, repo_exists \in BOOLEAN :
          applyRun = [pc |-> "canonical", method |-> method, repo_exists |-> repo_exists,
                      git |-> << >>, err |-> None]
    /\ \E copy \in WorkingCopies(HostNames[1]), side \in BOOLEAN, stale \in BOOLEAN :
          /\ head = [h \in Hosts |-> IF h = HostNames[1] THEN copy.head ELSE RootCommit]
          /\ index = [h \in Hosts |-> IF h = HostNames[1] THEN copy.head.tree ELSE BaseTree]
          /\ wt = [h \in Hosts |-> IF h = HostNames[1] THEN copy.wt ELSE BaseTree]
          /\ remotes = [h \in Hosts |-> IF h = HostNames[1] /\ side THEN { "origin", SideRemote }
                                        ELSE { "origin" }]
          /\ tracking = [h \in Hosts |-> IF h = HostNames[1] /\ stale THEN Some(RootCommit)
                                         ELSE None]
    /\ remoteTip \in { None } \cup
                     { Some(commit_tree([BaseTree EXCEPT !["a.txt"] = edit], Some(RootCommit),
                                        generate_commit_message("host2", FALSE))) :
                         edit \in { << Mark("host2"), 0 >>, << 0, Mark("host2") >> } }
    /\ cfg = [include_untracked |-> FALSE]
    /\ snap = [h \in Hosts |-> None]
    /\ pc = [h \in Hosts |-> "idle"]
    /\ loc = [h \in Hosts |-> InitLoc]
    /\ result = [h \in Hosts |-> NoResult]
    /\ calls = [h \in Hosts |-> 0]
    /\ trace = [h \in Hosts |-> InitTrace]
    /\ app = << >> /\ state = << >> /\ walk = << >> /\ stdout = << >>
    /\ RunnerUnused
    /\ ControllerUnused

ApplyFrame ==
    UNCHANGED << cfg, remotes, snap, remoteTip, pc, loc, result, calls, trace,
                 runnerVars, controllerVars, app, state, walk >>

\* apply::run: canonical_repo(&repo)?
ApplyCanonical ==
    /\ applyRun.pc = "canonical"
    /\ LET err == IF applyRun.repo_exists THEN << >> ELSE << "failed to canonicalize" >>
       IN  applyRun' = [applyRun EXCEPT !.pc = propagate(err, "ensure_remote"),
                                        !.err = IF err = << >> THEN None ELSE Some(err)]
    /\ UNCHANGED << head, index, wt, tracking, stdout >>
    /\ ApplyFrame

\* git::fetch_side_channel: ensure_remote_exists(repo, &side.remote_name)?
ApplyEnsureRemote ==
    /\ applyRun.pc = "ensure_remote"
    /\ LET err == ensure_remote_exists(HostNames[1], SideRemote)
       IN  applyRun' = [applyRun EXCEPT !.pc = propagate(err, "fetch"),
                                        !.git = Append(@, "remote get-url"),
                                        !.err = IF err = << >> THEN None ELSE Some(err)]
    /\ UNCHANGED << head, index, wt, tracking, stdout >>
    /\ ApplyFrame

\* git::fetch_side_channel: git fetch <remote> <branch>, which fails when the
\* remote cannot be reached or has no such branch.
ApplyFetch ==
    /\ applyRun.pc = "fetch"
    /\ \E reachable \in BOOLEAN :
          LET err == git_fetch(HostNames[1], SideRemote, reachable /\ remoteTip # None)
          IN  /\ applyRun' = [applyRun EXCEPT !.pc = propagate(err, "integrate"),
                                              !.git = Append(@, "fetch"),
                                              !.err = IF err = << >> THEN None ELSE Some(err)]
              /\ tracking' = IF err = << >>
                             THEN [tracking EXCEPT ![HostNames[1]] =
                                      fetch_side_channel(@, remoteTip)]
                             ELSE tracking
    /\ UNCHANGED << head, index, wt, stdout >>
    /\ ApplyFrame

\* apply::run: the match on args.method, and the line printed on success.
ApplyIntegrate ==
    /\ applyRun.pc = "integrate"
    /\ LET done == CASE applyRun.method = "Merge" -> merge_side_channel_ff(HostNames[1])
                     [] applyRun.method = "CherryPick" ->
                          cherry_pick_side_channel_tip(HostNames[1])
                     [] applyRun.method = "Squash" -> squash_merge_side_channel(HostNames[1])
           commands == CASE applyRun.method = "Merge" -> << "merge --ff-only" >>
                         [] applyRun.method = "CherryPick" -> << "rev-parse", "cherry-pick" >>
                         [] applyRun.method = "Squash" -> << "merge --squash" >>
       IN  /\ applyRun' = [applyRun EXCEPT
                             !.pc = propagate(done.err, "done"),
                             !.git = @ \o commands,
                             !.err = IF done.err = << >> THEN None ELSE Some(done.err)]
           /\ head' = [head EXCEPT ![HostNames[1]] = done.head]
           /\ index' = [index EXCEPT ![HostNames[1]] = done.index]
           /\ wt' = [wt EXCEPT ![HostNames[1]] = done.wt]
           /\ stdout' = IF done.err = << >>
                        THEN Append(stdout, << "Applied side-channel changes to ", HostNames[1],
                                               " using ", applyRun.method >>)
                        ELSE stdout
    /\ UNCHANGED tracking
    /\ ApplyFrame

ApplyNext == ApplyCanonical \/ ApplyEnsureRemote \/ ApplyFetch \/ ApplyIntegrate

ApplySpec == ApplyInit /\ [][ApplyNext]_vars

(***************************************************************************)
(* The report (report.rs)                                                  *)
(***************************************************************************)

\* report::summarize
summarize(rs) ==
    LET count(status) == Cardinality({ i \in DOMAIN rs : rs[i].status = status })
    IN  [success |-> count("Success"), no_op |-> count("NoOp"), failed |-> count("Failed")]

\* print_run_summary: the first println!, a line as the pieces of its format.
summary_line(rs) ==
    << "Processed ", Len(rs), " repos: ", summarize(rs).success, " success, ",
       summarize(rs).no_op, " no-op, ", summarize(rs).failed, " failed" >>

\* print_run_summary: the println! of the loop.
result_line(item) ==
    LET st == CASE item.status = "Success" -> "OK"
                [] item.status = "NoOp" -> "NOOP"
                [] item.status = "Failed" -> "FAIL"
    IN  << "[", st, "] ", item.repo, " :: ", item.message >>

\* print_run_summary is called with the results of a run; nothing is printed
\* yet.
ReportInit ==
    /\ results \in UNION { [1..n -> [repo : { "/r1", "/r2" }, status : RepoStatus,
                                     message : { "pull ok", "no local changes" }]] :
                             n \in 0..MaxResults }
    /\ stdout = << >>
    /\ repos = << >>
    /\ runner = NoRunner
    /\ ops = [h \in Hosts |-> << >>]
    /\ has_changes = [h \in Hosts |-> FALSE]
    /\ origin = [h \in Hosts |-> RootCommit]
    /\ app = << >> /\ state = << >> /\ walk = << >> /\ applyRun = << >>
    /\ EngineUnused
    /\ ControllerUnused

\* print_run_summary: summarize and the first println!.
PrintSummary ==
    /\ stdout = << >>
    /\ stdout' = << summary_line(results) >>
    /\ UNCHANGED << engineVars, runnerVars, controllerVars, app, state, walk, applyRun >>

\* print_run_summary: one pass of the loop over the results.
PrintResult ==
    /\ stdout # << >>
    /\ Len(stdout) \in DOMAIN results
    /\ stdout' = Append(stdout, result_line(results[Len(stdout)]))
    /\ UNCHANGED << engineVars, runnerVars, controllerVars, app, state, walk, applyRun >>

ReportNext == PrintSummary \/ PrintResult

ReportSpec == ReportInit /\ [][ReportNext]_vars

(***************************************************************************)
(* Properties                                                              *)
(***************************************************************************)

Done(h) == pc[h] = "done"

\* The run of h reached the retry loop: it wrote a snapshot tree.
Staged(h) == trace[h].staged # None

ChangedPaths(tree) == { p \in Paths : tree[p] # BaseTree[p] }

Mentions(message, text) == \E i \in DOMAIN message : message[i] = text

\* The run ended because a fetch or a push could not reach the remote.
TransportFailed(h) ==
    \/ Mentions(result[h].message, PushFailedText)
    \/ Mentions(result[h].message, FetchFailedText)

\* C1: every step of side_channel_sync, whatever the call's outcome, leaves the
\* working copy's HEAD and its primary index as they were; the staging goes to
\* the temporary snapshot index.
C1_HeadAndPrimaryIndexUntouched ==
    [][\A h \in Hosts : EngineStep(h) => (head' = head /\ index' = index)]_vars

\* A dirty working copy was staged and published; HEAD and the primary index
\* still hold the initial commit.
C1_Witness ==
    \E h \in Hosts :
        /\ Done(h)
        /\ result[h].sync = "Pushed"
        /\ wt[h] # BaseTree
        /\ head[h] = RootCommit
        /\ index[h] = BaseTree

\* C2: two sync calls of two hosts whose snapshots change disjoint files, each
\* racing with no other push than the other call's and reaching the remote, both
\* return Pushed under every interleaving, and the branch tip's tree holds every
\* file either staged.
C2_DisjointFilesUnion ==
    \A a, b \in Hosts :
        ( /\ a # b
          /\ Done(a) /\ Done(b)
          /\ Staged(a) /\ Staged(b)
          /\ trace[a].advFetch <= 1 /\ trace[b].advFetch <= 1
          /\ ~TransportFailed(a) /\ ~TransportFailed(b)
          /\ ChangedPaths(trace[a].staged[1]) \cap ChangedPaths(trace[b].staged[1]) = {} )
        => /\ result[a].sync = "Pushed"
           /\ result[b].sync = "Pushed"
           /\ remoteTip # None
           /\ \A p \in ChangedPaths(trace[a].staged[1]) :
                  remoteTip[1].tree[p] = trace[a].staged[1][p]
           /\ \A p \in ChangedPaths(trace[b].staged[1]) :
                  remoteTip[1].tree[p] = trace[b].staged[1][p]

\* Both hosts published disjoint files; one of them was rejected with a stale
\* cached tip, re-fetched and merged.
C2_Witness ==
    \E a, b \in Hosts :
        /\ a # b
        /\ Done(a) /\ Done(b)
        /\ result[a].sync = "Pushed" /\ result[b].sync = "Pushed"
        /\ trace[b].refetches = 1
        /\ ChangedPaths(trace[a].staged[1]) = { "a.txt" }
        /\ ChangedPaths(trace[b].staged[1]) = { "b.txt" }
        /\ ChangedPaths(remoteTip[1].tree) = { "a.txt", "b.txt" }

\* The snapshots of two hosts change the same region of a file, or the same new file.
Overlapping(ta, tb) == \E p \in Paths : FileConflicts(BaseTree[p], ta[p], tb[p])

\* C3: of the first sync calls of two hosts whose snapshots overlap, both
\* reaching the remote, exactly one returns Pushed; the other fails with a
\* conflict message and publishes nothing, and the branch holds the winner's commit.
C3_OverlappingEditsOneWinner ==
    \A a, b \in Hosts :
        ( /\ a # b
          /\ Done(a) /\ Done(b)
          /\ calls[a] = 1 /\ calls[b] = 1
          /\ Staged(a) /\ Staged(b)
          /\ ~TransportFailed(a) /\ ~TransportFailed(b)
          /\ Overlapping(trace[a].staged[1], trace[b].staged[1]) )
        => \E w \in {a, b} :
              LET l == CHOOSE x \in {a, b} : x # w
              IN  /\ result[w].sync = "Pushed"
                  /\ result[l].status = "Failed"
                  /\ Mentions(result[l].message, ConflictText)
                  /\ trace[l].published = None
                  /\ remoteTip = trace[w].published
                  /\ remoteTip[1].tree = trace[w].staged[1]

\* The loser of a real race: its first push was rejected, and the merge after
\* the re-fetch conflicted.
C3_Witness ==
    \E w, l \in Hosts :
        /\ w # l
        /\ Done(w) /\ Done(l)
        /\ calls[w] = 1 /\ calls[l] = 1
        /\ result[w].sync = "Pushed"
        /\ trace[l].refetches = 1
        /\ Mentions(result[l].message, ConflictText)

\* C4: the side-channel branch only moves forward: every value of its tip is an
\* ancestor of (or equal to) the next one.
C4_RemoteBranchAppendOnly ==
    [][remoteTip # None =>
          (remoteTip' # None /\ is_ancestor(remoteTip[1], remoteTip'[1]))]_vars

\* The branch holds commits of both hosts on top of the seed, and a push that
\* did not descend from the tip has been rejected.
C4_Witness ==
    /\ remoteTip # None
    /\ remoteTip[1].parent # None
    /\ remoteTip[1].parent[1].parent # None
    /\ remoteTip[1].msg # remoteTip[1].parent[1].msg
    /\ \E h \in Hosts : trace[h].refetches = 1

\* C5: one sync call pushes at most twice and re-fetches at most once: the
\* re-fetch follows the rejection of the first push only and leads back to the
\* tip lookup; the rejection of the second push ends the call with the raced error.
C5_AtMostTwoPushesOneRefetch ==
    \A h \in Hosts :
        /\ trace[h].pushes <= 2
        /\ trace[h].refetches <= 1
        /\ pc[h] = "refetch" => (trace[h].pushes = 1 /\ trace[h].refetches = 0
                                  /\ ~loc[h].did_retry)
        /\ pc[h] \in { "build", "push" } =>
              /\ trace[h].pushes = trace[h].refetches
              /\ loc[h].did_retry <=> trace[h].refetches = 1
        /\ (Done(h) /\ result[h].sync = "Pushed") =>
              trace[h].pushes = trace[h].refetches + 1
        /\ (Done(h) /\ Mentions(result[h].message, RacedText)) =>
              (trace[h].pushes = 2 /\ trace[h].refetches = 1)
        /\ (Done(h) /\ trace[h].pushes = 2 /\ result[h].sync # "Pushed") =>
              \/ result[h].message = << "side-channel sync failed: ", RacedText >>
              \/ result[h].message = << "side-channel sync failed: ", PushFailedText >>

\* A call whose second push was rejected too.
C5_Witness ==
    \E h \in Hosts :
        /\ Done(h)
        /\ result[h].status = "Failed"
        /\ Mentions(result[h].message, RacedText)
        /\ trace[h].pushes = 2

\* The run of h could end in Pushed: it staged changes, no merge conflicted, and
\* every fetch and push reached the remote.
Unhindered(h) ==
    /\ Done(h)
    /\ Staged(h)
    /\ ~Mentions(result[h].message, ConflictText)
    /\ ~TransportFailed(h)

\* C6 as stated: a call that sees the branch advance at most once between its
\* first tip lookup and its last push, and whose merges do not conflict, returns Pushed.
C6_Original ==
    \A h \in Hosts :
        (Unhindered(h) /\ trace[h].advLookup <= 1) => result[h].sync = "Pushed"

\* The outcome of a call that met at most one advance of the branch since the
\* fetch that preceded it.
SingleRaceOutcome ==
    \A h \in Hosts :
        (Unhindered(h) /\ trace[h].advFetch <= 1) =>
            /\ result[h].sync = "Pushed"
            /\ trace[h].published # None
            /\ trace[h].refetches <= trace[h].advFetch
            /\ trace[h].refetches = 1 =>
                  /\ trace[h].published[1].parent # None
                  /\ trace[h].published[1].parent[1].msg
                        # generate_commit_message(h, cfg.include_untracked)

\* C6 amended: a call that sees the branch advance at most once between the
\* fetch that precedes it and its last push, and whose merges do not conflict,
\* returns Pushed, after at most one re-fetch; a call that saw one advance and
\* was rejected re-fetched, and published a commit on top of the peer's. The
\* retry loop is passed at most twice on the way.
C6_SingleRaceAbsorbed ==
    /\ SingleRaceOutcome
    /\ \A h \in Hosts : trace[h].commits <= 2

\* The loser of one race: rejected once, it re-fetched, merged and published.
C6_Witness ==
    \E h \in Hosts :
        /\ Unhindered(h)
        /\ trace[h].advFetch = 1
        /\ trace[h].refetches = 1
        /\ result[h].sync = "Pushed"
        /\ trace[h].published[1].tree # trace[h].staged[1]

\* The working tree of h has no difference against HEAD for the staging scope.
Clean(h) == StageAdd(head[h].tree, wt[h], cfg.include_untracked) = head[h].tree

\* C7: a sync call on a working tree without a difference against HEAD, for
\* the staging scope, never gets past the dirty check: it returns NoChanges,
\* builds no commit and attempts no push, so the branch is not moved by it.
C7_CleanTreeNoChanges ==
    \A h \in Hosts :
        (Clean(h) /\ trace[h].snapshots > 0) =>
            /\ pc[h] \in { "stage", "done" }
            /\ trace[h].commits = 0
            /\ trace[h].pushes = 0
            /\ trace[h].published = None
            /\ Done(h) => /\ result[h].sync = "NoChanges"
                           /\ result[h].status = "NoOp"

\* A working tree whose only change is an untracked file, staged with add -u.
C7_Witness ==
    \E h \in Hosts :
        /\ Done(h)
        /\ result[h].sync = "NoChanges"
        /\ wt[h] # head[h].tree
        /\ ~cfg.include_untracked
        /\ remoteTip # None

\* C8 as stated: the second of two back-to-back calls, with no change of the
\* working tree and no push of a peer in between, returns NoChanges and
\* publishes nothing.
C8_Original ==
    \A h \in Hosts :
        (Done(h) /\ trace[h].resync /\ trace[h].advFetch = 0 /\ ~TransportFailed(h))
        => (result[h].sync = "NoChanges" /\ trace[h].published = None)

\* C8 amended: the second call repeats the outcome of the first. After a call
\* that returned Pushed it returns Pushed again, with one push: it publishes one
\* more commit, whose parent is the commit the first call published and whose
\* tree is that commit's tree. After a call that returned NoChanges it returns
\* NoChanges.
C8_SecondCallRepeatsFirst ==
    \A h \in Hosts :
        /\ (Done(h) /\ trace[h].resync /\ trace[h].advFetch = 0 /\ ~TransportFailed(h))
           => /\ result[h].sync = "Pushed"
              /\ trace[h].pushes = 1
              /\ trace[h].published # None
              /\ trace[h].published[1].parent # None
              /\ LET first == trace[h].published[1].parent[1]
                 IN  /\ first.msg = generate_commit_message(h, cfg.include_untracked)
                     /\ first.tree = trace[h].published[1].tree
        /\ (Done(h) /\ calls[h] >= 2 /\ Clean(h) /\ trace[h].snapshots > 0)
           => result[h].sync = "NoChanges"

\* The second call published a second commit with the first one's tree.
C8_Witness ==
    \E h \in Hosts :
        /\ Done(h)
        /\ calls[h] = 2
        /\ trace[h].resync
        /\ result[h].sync = "Pushed"
        /\ remoteTip = trace[h].published
        /\ remoteTip[1].parent[1].tree = remoteTip[1].tree
        /\ remoteTip[1].parent[1].msg = remoteTip[1].msg

\* The paths that conflict when the snapshot of h is merged with the tip cached
\* in the repository of h.
ConflictingPaths(h) ==
    LET base == merge_base(head[h], tracking[h][1])[1].tree
    IN  { p \in Paths :
            FileConflicts(base[p], trace[h].staged[1][p], tracking[h][1].tree[p]) }

\* C9: a call whose merge conflicts fails with the conflict message followed by
\* the conflicting paths, each once, in ascending order, separated by ", "; the
\* iteration that met the conflict pushed nothing, and the call published nothing.
C9_ConflictListsSortedPaths ==
    \A h \in Hosts :
        (Done(h) /\ Mentions(result[h].message, ConflictText)) =>
            LET msg == result[h].message
                n == Len(msg) - 2
                listed == [i \in 1..n |-> msg[i + 2]]
                odd == { i \in 1..n : i % 2 = 1 }
            IN  /\ result[h].status = "Failed"
                /\ msg[1] = "side-channel sync failed: "
                /\ msg[2] = ConflictText
                /\ n % 2 = 1
                /\ \A i \in 1..n : i % 2 = 0 => listed[i] = ", "
                /\ \A i, j \in odd : i < j => Rank(listed[i]) < Rank(listed[j])
                /\ { listed[i] : i \in odd } = ConflictingPaths(h)
                /\ trace[h].pushes = trace[h].refetches
                /\ trace[h].commits = trace[h].pushes
                /\ trace[h].published = None

\* A conflict in two files, met after a rejected push and a re-fetch.
C9_Witness ==
    \E h \in Hosts :
        /\ Done(h)
        /\ Mentions(result[h].message, ConflictText)
        /\ ConflictingPaths(h) = { "a.txt", "b.txt" }
        /\ Len(result[h].message) = 5
        /\ trace[h].refetches = 1

\* C10: in a repository without the side-channel remote a run that gets past
\* the pull ends Failed in the preflight with the missing-remote error: no
\* snapshot index was created, no commit built and no push attempted.
C10_MissingRemoteFailsFirst ==
    \A h \in Hosts :
        SideRemote \notin remotes[h] =>
            /\ pc[h] \in { "idle", "preflight", "done" }
            /\ snap[h] = None
            /\ trace[h].snapshots = 0 /\ trace[h].commits = 0 /\ trace[h].pushes = 0
            /\ (Done(h) /\ result[h].message[1] # "pull failed: ") =>
                  /\ result[h].status = "Failed"
                  /\ Len(result[h].message) >= 3
                  /\ result[h].message[1] = "side-channel setup failed: "
                  /\ result[h].message[2] = MissingRemoteText
                  /\ result[h].message[3] = SideRemote

\* A run in a repository without the remote, ended by the preflight while the
\* other host has published to the branch.
C10_Witness ==
    \E h \in Hosts :
        /\ SideRemote \notin remotes[h]
        /\ Done(h)
        /\ Mentions(result[h].message, MissingRemoteText)
        /\ wt[h] # head[h].tree
        /\ remoteTip # None

(***************************************************************************)
(* Properties of the workflow runner (WorkflowSpec)                        *)
(***************************************************************************)

Returned == runner.state = "returned"

\* The positions of the input list whose repository run_repo has been called for.
Begun == { i \in DOMAIN repos : pc[repos[i]] # "idle" }

\* C11: the workflow runner returns exactly one result per input repository, in
\* input order (results[i].repo = repos[i]); a repository is begun only when
\* every earlier one has been processed to completion and has its result; and
\* under failure policy Continue every repository is processed, whatever the
\* results of the earlier ones.
C11_OneResultPerRepoInOrder ==
    /\ Len(results) <= Len(repos)
    /\ \A i \in DOMAIN results : results[i].repo = repos[i]
    /\ \A i \in Begun : \A j \in 1..(i - 1) :
          /\ pc[repos[j]] = "returned"
          /\ j \in DOMAIN results
    /\ (Returned /\ cfg.failure_policy = "Continue") =>
          /\ Len(results) = Len(repos)
          /\ \A i \in DOMAIN repos : ops[repos[i]] # << >>

\* The runner returned two results, the first Failed and the second Success.
C11_Witness ==
    /\ Returned
    /\ Len(results) = 2
    /\ results[1].status = "Failed"
    /\ results[2].status = "Success"
    /\ results[1].repo = "host2"

\* run_repo has returned for h (its result may be collected already).
Completed(h) == pc[h] \in { "done", "returned" }

PullOk(h) == Completed(h) /\ ~Mentions(result[h].message, "pull failed: ")

\* The steps of the side-channel path and of the straight path.
EngineSteps == { "preflight", "seed", "stage", "build", "push", "refetch" }

StraightSteps == { "git_stage", "git_diff", "git_commit", "git_push" }

\* The run of h went through the side-channel path: the preflight failed, or
\* side_channel_sync returned a value or an error.
EngineRan(h) ==
    \/ Mentions(result[h].message, "side-channel setup failed: ")
    \/ result[h].sync # "none"

\* The run of h went through the stage, commit and push steps of the straight path.
StraightRan(h) == Len(ops[h]) > 1

PullOnly == ~cfg.side_channel.enabled /\ ~cfg.push_enabled

\* C13: in a run with side_channel.enabled = false and push_enabled = false no
\* step stages, commits or pushes: the only git operation per repository is
\* pull --ff-only, the index, HEAD, the working tree, origin and the side
\* remote stay as they are, and a repository's result is Success "pull ok" or
\* Failed "pull failed: ...".
C13_PullOnlyWritesNothing ==
    [][PullOnly =>
         /\ index' = index /\ head' = head /\ wt' = wt
         /\ origin' = origin /\ remoteTip' = remoteTip /\ tracking' = tracking
         /\ \A h \in Hosts :
               /\ ops'[h] \in { << >>, << "pull" >> }
               /\ Completed(h)' =>
                     \/ /\ result'[h].status = "Success"
                        /\ result'[h].message = << "pull ok" >>
                     \/ /\ result'[h].status = "Failed"
                        /\ result'[h].message[1] = "pull failed: "]_vars

\* A pull-only run of a working copy that has local changes and an unpushed
\* commit ended with "pull ok".
C13_Witness ==
    \E h \in Hosts :
        /\ PullOnly
        /\ PullOk(h)
        /\ wt[h] # head[h].tree
        /\ head[h] # origin[h]
        /\ result[h].status = "Success"

StraightPush == cfg.push_enabled /\ ~cfg.side_channel.enabled

IsPrefix(s, t) == Len(s) <= Len(t) /\ \A i \in DOMAIN s : s[i] = t[i]

Last(s) == s[Len(s)]

\* The text run_repo puts in front of the error of a failed step.
FailureText(op) ==
    CASE op = "pull" -> "pull failed: "
      [] op = "stage" -> "stage failed: "
      [] op = "diff" -> "failed to inspect staged diff: "
      [] op = "commit" -> "commit failed: "
      [] op = "push" -> "push failed: "

\* C14: on the straight path with push enabled the git operations of a
\* repository run in the order pull, stage, staged-diff check, commit, push,
\* the commit being left out when the staged diff is empty; a step that fails
\* is the last one and the result is Failed with that step's text ("push
\* failed: ..." for the push); a run that does not fail ends with the push;
\* the commit runs only on a non-empty staged diff, the push follows the diff
\* check directly only on an empty one, and the push runs at most once.
C14_StraightPathStepOrder ==
    [][StraightPush =>
         \A h \in Hosts :
            /\ \/ IsPrefix(ops'[h], << "pull", "stage", "diff", "commit", "push" >>)
               \/ IsPrefix(ops'[h], << "pull", "stage", "diff", "push" >>)
            /\ Completed(h)' =>
                  IF result'[h].status = "Failed"
                  THEN result'[h].message[1] = FailureText(Last(ops'[h]))
                  ELSE Last(ops'[h]) = "push"
            /\ (ops'[h] # ops[h] /\ Last(ops'[h]) = "commit") =>
                  index[h] # head[h].tree
            /\ (ops'[h] # ops[h] /\ Last(ops'[h]) = "push" /\ Last(ops[h]) = "diff") =>
                  index[h] = head[h].tree
            /\ (pc[h] = "git_diff" /\ pc'[h] \in StraightSteps) =>
                  pc'[h] = IF index[h] # head[h].tree THEN "git_commit" ELSE "git_push"]_vars

\* A straight-path run staged, committed and pushed, and the push failed.
C14_Witness ==
    \E h \in Hosts :
        /\ StraightPush
        /\ Completed(h)
        /\ ops[h] = << "pull", "stage", "diff", "commit", "push" >>
        /\ result[h].status = "Failed"
        /\ result[h].message[1] = "push failed: "

\* C15: a straight-path run whose push succeeds reports NoOp exactly when it
\* committed nothing and its push had nothing to transfer (origin was at HEAD
\* already); it reports Success when it committed or when the push brought
\* earlier local commits to origin.
C15_NoOpOnlyWhenNothingPushed ==
    [][\A h \in Hosts :
          (StraightPush /\ pc[h] = "git_push" /\ Completed(h)'
             /\ result'[h].status # "Failed") =>
             LET committed == \E i \in DOMAIN ops[h] : ops[h][i] = "commit"
                 transferred == origin[h] # head[h]
             IN  /\ result'[h].status = "NoOp" <=> (~committed /\ ~transferred)
                 /\ result'[h].status = "Success" <=> (committed \/ transferred)]_vars

\* What a snapshot or commit of h made over the tree base has to hold: a path
\* tracked in base as it is in the working tree (modified, deleted or
\* untouched), a path not tracked in base as it is in the working tree when
\* untracked files are included, and not at all otherwise.
HoldsWorkOf(h, base, tree) ==
    \A p \in Paths :
        tree[p] = IF base[p] # << >> THEN wt[h][p]
                  ELSE IF cfg.include_untracked THEN wt[h][p]
                  ELSE << >>

\* The same for the untracked files alone, in a published commit, which is the
\* snapshot merged with the tip of the side branch: the untracked files of the
\* working tree when they are included, no untracked path otherwise.
HoldsUntrackedOf(h, base, tree) ==
    \A p \in Paths :
        base[p] = << >> =>
            IF cfg.include_untracked
            THEN wt[h][p] # << >> => tree[p] = wt[h][p]
            ELSE tree[p] = << >>

\* C16: with include_untracked = false the commit of the straight path, the
\* snapshot of the side-channel path and the commit it publishes hold the
\* modifications and deletions of tracked files and no untracked file, and the
\* repository's index never takes an untracked file in; with include_untracked
\* = true they hold every untracked file too; no step changes the working
\* tree, so the untracked files stay on disk.
C16_UntrackedOnlyWhenIncluded ==
    [][/\ wt' = wt
       /\ \A h \in Hosts :
             /\ head'[h] # head[h] => HoldsWorkOf(h, head[h].tree, head'[h].tree)
             /\ trace'[h].staged # None =>
                   HoldsWorkOf(h, head[h].tree, trace'[h].staged[1])
             /\ trace'[h].published # None =>
                   HoldsUntrackedOf(h, head[h].tree, trace'[h].published[1].tree)
             /\ ~cfg.include_untracked =>
                   \A p \in Paths : head[h].tree[p] = << >> => index'[h][p] = << >>]_vars

\* With include_untracked = false a run published a snapshot with the
\* modification of a.txt and without the untracked b.txt, which is on disk.
C16_Witness ==
    \E h \in Hosts :
        /\ ~cfg.include_untracked
        /\ Completed(h)
        /\ wt[h]["b.txt"] # << >>
        /\ wt[h]["a.txt"] # head[h].tree["a.txt"]
        /\ trace[h].published # None
        /\ trace[h].published[1].tree["b.txt"] = << >>
        /\ trace[h].published[1].tree["a.txt"] = wt[h]["a.txt"]

(***************************************************************************)
(* Properties of the controller (ConfigSpec)                               *)
(***************************************************************************)

Exited == main.pc = "exit"

\* Both flags of one of the three pairs are given.
ConflictingFlags ==
    \/ args.pull_only /\ args.push
    \/ args.include_untracked /\ args.tracked_only
    \/ args.side_channel /\ args.no_side_channel

\* The configuration file does not parse or does not validate.
InvalidConfig == ~config.parses \/ config.side_channel.remote_name = Some("")

\* C17: the process exits with 2 exactly when the configuration is invalid or
\* the flags conflict, and then no repository has been processed; otherwise it
\* exits with 1 exactly when at least one repository result is Failed and
\* with 0 exactly when every result is Success or NoOp, which includes the
\* run in which no repository is selected.
C17_ExitCodes ==
    Exited =>
        LET code == main.exit_code[1]
            fatal == InvalidConfig \/ ConflictingFlags
            anyFailed == \E i \in DOMAIN main.results : main.results[i] = "Failed"
        IN  /\ code \in { 0, 1, 2 }
            /\ code = 2 <=> fatal
            /\ fatal => main.run_targets = << >> /\ main.results = << >>
            /\ code = 1 <=> (~fatal /\ anyFailed)
            /\ code = 0 <=>
                  (~fatal /\ \A i \in DOMAIN main.results :
                                  main.results[i] \in { "Success", "NoOp" })
            /\ (~fatal /\ selected = << >>) => code = 0

\* The run of two repositories, one Success and one Failed, exited with 1.
C17_Witness ==
    /\ Exited
    /\ main.results = << "Success", "Failed" >>
    /\ main.exit_code = Some(1)

\* The value of a field after the layers: the CLI flag that sets it to TRUE,
\* the one that sets it to FALSE, the per-repository override, the value of
\* the configuration file, the built-in default.
Layered(flag_on, flag_off, repo_override, file_value, default) ==
    IF flag_on THEN TRUE
    ELSE IF flag_off THEN FALSE
    ELSE IF repo_override # None THEN repo_override[1]
    ELSE IF file_value # None THEN file_value[1]
    ELSE default

\* C18: in the run configuration of every run target include_untracked and
\* side_channel.enabled are the CLI flag's value when a flag is given, else
\* the per-repository override when there is one, else the value of the
\* configuration file when it sets one, else the built-in default.
C18_LayeredOverrides ==
    \A i \in DOMAIN main.run_targets :
        LET t == main.run_targets[i]
            r == selected[t.repo]
        IN  /\ t.run_cfg.include_untracked =
                  Layered(args.include_untracked, args.tracked_only, r.include_untracked,
                          config.include_untracked, FALSE)
            /\ t.run_cfg.side_channel.enabled =
                  Layered(args.side_channel, args.no_side_channel, r.side_channel.enabled,
                          config.side_channel.enabled, FALSE)

\* A run target whose override of include_untracked (false) wins over the
\* configuration file (true) with no flag given, and whose override of
\* side_channel.enabled (false) loses against --side-channel.
C18_Witness ==
    \E i \in DOMAIN main.run_targets :
        LET t == main.run_targets[i]
            r == selected[t.repo]
        IN  /\ ~args.include_untracked /\ ~args.tracked_only
            /\ r.include_untracked = Some(FALSE)
            /\ config.include_untracked = Some(TRUE)
            /\ ~t.run_cfg.include_untracked
            /\ args.side_channel
            /\ r.side_channel.enabled = Some(FALSE)
            /\ t.run_cfg.side_channel.enabled

\* resolve_run_config has been called (the configuration loaded) and returned.
Resolved == main.cfg # None /\ main.pc \in { "targets", "exit" }

\* C19: resolve_run_config yields no run configuration, and the process exits
\* at once, exactly when both flags of one of the pairs (pull-only, push),
\* (include-untracked, tracked-only), (side-channel, no-side-channel) are
\* given; for every other combination of flags it yields one.
C19_ConflictingFlagsFail ==
    Resolved =>
        /\ main.base_run_cfg = None <=> ConflictingFlags
        /\ ConflictingFlags => (Exited /\ main.run_targets = << >>)

\* --side-channel and --no-side-channel, and no other pair, made the
\* resolution fail.
C19_Witness ==
    /\ Resolved
    /\ args.side_channel /\ args.no_side_channel
    /\ ~args.pull_only /\ ~args.include_untracked
    /\ main.base_run_cfg = None
    /\ main.exit_code = Some(2)

\* C20: with --pull-only the resolved run configuration has push_enabled =
\* false whatever the configuration's default_mode and push_enabled are, and
\* so has the run configuration of every run target, after the
\* per-repository and CLI overrides.
C20_PullOnlyDisablesPush ==
    (args.pull_only /\ main.base_run_cfg # None) =>
        /\ ~main.base_run_cfg[1].push_enabled
        /\ \A i \in DOMAIN main.run_targets : ~main.run_targets[i].run_cfg.push_enabled

\* --pull-only over a configuration that enables push in sync-all mode, with
\* a run target that has overrides and a CLI override.
C20_Witness ==
    /\ args.pull_only
    /\ args.side_channel
    /\ config.parses /\ config.push_enabled = None /\ config.default_mode = None
    /\ \E i \in DOMAIN main.run_targets :
          /\ selected[main.run_targets[i].repo].include_untracked = Some(TRUE)
          /\ ~main.run_targets[i].run_cfg.push_enabled

(***************************************************************************)
(* Further properties of the engine (Spec)                                 *)
(***************************************************************************)

\* C30: every commit the engine pushes to the side branch has exactly one
\* parent, which is the side-branch tip the pushing host has in its object
\* store (its remote-tracking ref) when there is one and the host's HEAD
\* commit otherwise, and its message is the message run_repo generated for
\* the call.
C30_PushedCommitHasOneParent ==
    [][remoteTip' # remoteTip =>
         \E h \in Hosts :
            LET c == remoteTip'[1]
            IN  /\ pc[h] = "push"
                /\ Len(c.parent) = 1
                /\ c.parent[1] = IF tracking[h] # None THEN tracking[h][1] ELSE head[h]
                /\ c.msg = << "shephard sync: ", h,
                              IF cfg.include_untracked THEN "all" ELSE "tracked" >>]_vars

\* The branch holds a commit of one host on top of a commit of the other,
\* which is on top of the initial commit.
C30_Witness ==
    /\ remoteTip # None
    /\ remoteTip[1].msg = generate_commit_message("host2", cfg.include_untracked)
    /\ remoteTip[1].parent # None
    /\ remoteTip[1].parent[1].msg = generate_commit_message("host1", cfg.include_untracked)
    /\ remoteTip[1].parent[1].parent = Some(RootCommit)

(***************************************************************************)
(* Further properties of the controller (ConfigSpec)                       *)
(***************************************************************************)

\* C21: with --push the resolved run configuration takes the push path
\* (push_enabled = true), whatever default_mode and push_enabled the
\* configuration file sets, and so does the run configuration of every run
\* target.
C21_PushFlagForcesPush ==
    (args.push /\ main.base_run_cfg # None) =>
        /\ main.base_run_cfg[1].push_enabled
        /\ \A i \in DOMAIN main.run_targets : main.run_targets[i].run_cfg.push_enabled

(***************************************************************************)
(* Properties of config::load and of the run targets                       *)
(***************************************************************************)

\* config::load returned, with a configuration or with an error.
Loaded == main.pc # "load"

GivenEmpty(option) == option # None /\ option[1] = ""

\* The file names an empty remote or branch of the side channel, globally or
\* for a repository, an empty commit template, an empty repository path, or
\* two repositories with the same canonical path.
FileInvalid ==
    /\ config.exists /\ config.parses
    /\ \/ GivenEmpty(config.side_channel.remote_name)
       \/ GivenEmpty(config.side_channel.branch_name)
       \/ GivenEmpty(config.commit_template)
       \/ /\ config.repositories # None
          /\ LET entries == config.repositories[1]
                 canonical(i) == canonicalize_repo_path(join_config_dir(entries[i].path))
             IN  \E i \in DOMAIN entries :
                    \/ entries[i].path = ""
                    \/ /\ entries[i].side_channel # None
                       /\ \/ GivenEmpty(entries[i].side_channel[1].remote_name)
                          \/ GivenEmpty(entries[i].side_channel[1].branch_name)
                    \/ \E j \in DOMAIN entries : j # i /\ canonical(j) = canonical(i)

\* C22: load fails, returning no configuration (the process exits with 2),
\* whenever the file gives an empty side-channel remote_name or branch_name,
\* globally or in a repository's override, an empty commit template, an empty
\* repository path, or two repository entries with the same canonical path;
\* and a configuration that load returns has none of these.
C22_LoadRejectsInvalid ==
    Loaded =>
        /\ FileInvalid => (main.cfg = None /\ main.exit_code = Some(2))
        /\ main.cfg # None =>
              LET c == main.cfg[1]
              IN  /\ c.side_channel.remote_name # ""
                  /\ c.side_channel.branch_name # ""
                  /\ c.commit_template # ""
                  /\ \A i \in DOMAIN c.repositories :
                        /\ c.repositories[i].path # ""
                        /\ ~GivenEmpty(c.repositories[i].side_channel.remote_name)
                        /\ ~GivenEmpty(c.repositories[i].side_channel.branch_name)
                        /\ \A j \in DOMAIN c.repositories :
                              j # i => canonicalize_repo_path(c.repositories[j].path)
                                          # canonicalize_repo_path(c.repositories[i].path)

\* load has rejected a file whose only fault is that a relative and an absolute
\* path name the same repository.
C22_Witness ==
    /\ Loaded /\ main.cfg = None /\ main.exit_code = Some(2)
    /\ config.repositories # None
    /\ Len(config.repositories[1]) = 2
    /\ config.repositories[1][1].path = "/cfg/r2"
    /\ config.repositories[1][2].path = "r2"
    /\ \A i \in 1..2 : config.repositories[1][i].side_channel = None

\* run_sync has chosen its targets from a configuration that loaded.
TargetsChosen == main.cfg # None /\ main.pc \in { "targets", "exit" }

\* C29: without --repos the run targets are the enabled configured
\* repositories in configuration order; with --repos they are the enabled
\* configured repositories whose canonical path is the canonical path of a
\* given path, each once, in the order in which the paths are given, so that
\* disabled and unconfigured paths yield no target.
C29_RunTargets ==
    TargetsChosen =>
        LET configured == main.cfg[1].repositories
            given == args.repos
            matches(repo, i) ==
                canonicalize_repo_path(given[i]) = canonicalize_repo_path(repo.path)
            first(repo) == CHOOSE i \in DOMAIN given :
                              matches(repo, i) /\ \A j \in 1..(i - 1) : ~matches(repo, j)
        IN  IF given = << >>
            THEN /\ \A i \in DOMAIN selected :
                       selected[i].enabled /\ \E k \in DOMAIN configured : configured[k] = selected[i]
                 /\ \A k \in DOMAIN configured :
                       configured[k].enabled => \E i \in DOMAIN selected : selected[i] = configured[k]
                 /\ \A i, j \in DOMAIN selected :
                       i < j => \E k, l \in DOMAIN configured :
                                   k < l /\ configured[k] = selected[i] /\ configured[l] = selected[j]
            ELSE /\ \A i \in DOMAIN selected :
                       /\ selected[i].enabled
                       /\ \E k \in DOMAIN configured : configured[k] = selected[i]
                       /\ \E g \in DOMAIN given : matches(selected[i], g)
                 /\ \A k \in DOMAIN configured :
                       (configured[k].enabled /\ \E g \in DOMAIN given : matches(configured[k], g))
                           => \E i \in DOMAIN selected : selected[i] = configured[k]
                 /\ \A i, j \in DOMAIN selected :
                       i < j => /\ selected[i] # selected[j]
                                /\ first(selected[i]) < first(selected[j])

\* Two enabled repositories are given in the order opposite to the
\* configuration's, one of them under another name of its directory, and they
\* are the targets in the order given.
C29_Witness ==
    /\ TargetsChosen
    /\ args.repos = << "/cfg/r2", "/r1/." >>
    /\ Len(main.cfg[1].repositories) = 2
    /\ main.cfg[1].repositories[1].path = "/r1"
    /\ Len(selected) = 2
    /\ selected[1].path = "/cfg/r2" /\ selected[2].path = "/r1"

(***************************************************************************)
(* Properties of the interactive selector                                  *)
(***************************************************************************)

\* The place of a screen in the order of the selector.
ScreenRank(screen) ==
    CASE screen = "RepoSelection" -> 1
      [] screen = "RunMode" -> 2
      [] screen = "IncludeUntracked" -> 3
      [] screen = "SideChannel" -> 4

\* C23: a key press leaves the selector on its screen or moves it to the next
\* one in the order repo selection, run mode, include-untracked, side-channel,
\* and only Enter moves it; Enter on pull-only on the run-mode screen
\* completes at once with push disabled, without showing screens 3 and 4; and
\* a selection with push enabled is completed only by Enter on screen 4, which
\* is entered only by Enter on screen 3.
C23_ScreensForwardOnly ==
    [][LET before == app.ui
           after == app'.ui
       IN  /\ ScreenRank(after.screen) \in
                 { ScreenRank(before.screen), ScreenRank(before.screen) + 1 }
           /\ after.screen # before.screen => app'.key = "Enter"
           /\ (app'.key = "Enter" /\ before.screen = "RunMode" /\ before.run_mode_cursor = 1)
                 => /\ app'.outcome = "Complete"
                    /\ ~app'.returned[1].run_config.push_enabled
                    /\ after.screen = "RunMode"
           /\ app'.outcome = "Complete"
                 => /\ app'.key = "Enter"
                    /\ \/ /\ before.screen = "RunMode" /\ before.run_mode_cursor = 1
                          /\ ~app'.returned[1].run_config.push_enabled
                       \/ /\ before.screen = "SideChannel" /\ before.run_mode_cursor = 0
                          /\ app'.returned[1].run_config.push_enabled]_vars

\* Pull-only was chosen on the run-mode screen although the run configuration
\* the selector started from pushes: the selector completed on screen 2.
C23_Witness ==
    /\ app.outcome = "Complete"
    /\ app.ui.screen = "RunMode"
    /\ app.ui.base_run_config.push_enabled
    /\ ~app.returned[1].run_config.push_enabled

\* C24: Esc, q and Q cancel the selector on every screen and after every
\* sequence of earlier keys, and a cancelled selector returns no selection and
\* leaves the selection state as it was.
C24_CancelYieldsNoAction ==
    [][/\ (app.outcome = "Running" /\ app'.key \in { "Esc", "q", "Q" })
             => app'.outcome = "Cancelled"
       /\ app'.outcome = "Cancelled" => (app'.returned = None /\ state' = state)]_vars

\* The selector was cancelled on its last screen, with persistence enabled,
\* after the selection of the first repository was changed.
C24_Witness ==
    /\ app.outcome = "Cancelled"
    /\ app.ui.screen = "SideChannel"
    /\ app.persist_selection
    /\ app.repos # << >>
    /\ "/r1" \in DOMAIN state
    /\ app.ui.repos[1].selected # state["/r1"]

\* C25: when the selector is confirmed with persistence enabled, the selection
\* state afterwards maps the canonical path of every discovered repository to
\* whether the repository is in the returned selection, and keeps every other
\* entry as it was; with persistence disabled the state is unchanged.
C25_PersistedSelection ==
    [][(app.outcome = "Running" /\ app'.outcome = "Complete") =>
          LET chosen == { app'.returned[1].selected_repos[i] :
                            i \in DOMAIN app'.returned[1].selected_repos }
              found == { app.repos[i] : i \in DOMAIN app.repos }
              keys == { canonicalize_repo_path(path) : path \in found }
          IN  IF app.persist_selection
              THEN /\ DOMAIN state' = DOMAIN state \cup keys
                   /\ \A path \in found :
                         state'[canonicalize_repo_path(path)] = (path \in chosen)
                   /\ \A key \in DOMAIN state \ keys : state'[key] = state[key]
              ELSE state' = state]_vars

\* A confirmed selection with persistence: one discovered repository selected,
\* the other not, and an entry of a repository that was not discovered.
C25_Witness ==
    /\ app.outcome = "Complete"
    /\ app.persist_selection
    /\ app.repos = << "/r1", "/r2" >>
    /\ app.returned[1].selected_repos = << "/r2" >>
    /\ DOMAIN state = { "/r1", "/r2", "/r9" }
    /\ ~state["/r1"] /\ state["/r2"]

(***************************************************************************)
(* Properties of discovery                                                 *)
(***************************************************************************)

\* The directory `dir` contains a .git entry and lies in an existing root,
\* and none of the components from below the root down to position `last` is
\* ".git" or, with descend_hidden_dirs false, begins with a dot.
Admitted(dir, last) ==
    /\ dir \in walk.marked
    /\ \E i \in DOMAIN walk.roots :
          LET base == canonicalize(walk.roots[i])
          IN  /\ base \in Dirs(walk.marked)
              /\ starts_with(dir, base)
              /\ \A k \in (Len(base) + 1)..last :
                    /\ dir[k] # ".git"
                    /\ walk.descend_hidden_dirs \/ dir[k] \notin { ".h", ".git" }

\* The list is duplicate-free and in the order of paths.
Ascending(list) == \A i, j \in DOMAIN list : i < j => path_less(list[i], list[j])

\* C26 as stated: the list holds exactly the directories with a .git entry
\* that are reached without entering a .git directory or, with
\* descend_hidden_dirs false, a non-root directory whose name begins with a
\* dot, where reaching a directory enters the directories above it.
C26_Original ==
    walk.returned # None =>
        LET list == walk.returned[1]
        IN  /\ Ascending(list)
            /\ { list[i] : i \in DOMAIN list } =
                  { dir \in Dirs(walk.marked) : Admitted(dir, Len(dir) - 1) }

\* C26: discovery returns, without an error, the duplicate-free list in the
\* order of canonical paths of exactly the directories under the existing
\* roots that contain a .git entry and that, from below their root down to
\* and including themselves, have no component ".git" and, when
\* descend_hidden_dirs is false, no component that begins with a dot; a root
\* that does not exist contributes nothing.
C26_DiscoveredRepositories ==
    walk.returned # None =>
        LET list == walk.returned[1]
        IN  /\ Ascending(list)
            /\ { list[i] : i \in DOMAIN list } =
                  { dir \in Dirs(walk.marked) : Admitted(dir, Len(dir)) }

\* Discovery returned for a missing root and another name of the tree, with
\* repositories in a hidden directory and inside a git directory left out.
C26_Witness ==
    /\ walk.returned = Some(<< << "w", "a" >>, << "w", "a", "b" >> >>)
    /\ walk.roots = << << "gone" >>, << "w", "." >> >>
    /\ ~walk.descend_hidden_dirs
    /\ walk.marked = { << "w", "a" >>, << "w", "a", "b" >>, << "w", ".h" >>,
                       << "w", ".h", "r" >>, << "w", "a", ".git", "m" >> }

(***************************************************************************)
(* Properties of shephard apply                                            *)
(***************************************************************************)

\* The git commands of the integration step of a method.
IntegrationOf(method) ==
    CASE method = "Merge" -> << "merge --ff-only" >>
      [] method = "CherryPick" -> << "rev-parse", "cherry-pick" >>
      [] method = "Squash" -> << "merge --squash" >>

\* C27: apply runs git remote get-url, then git fetch, then the commands of
\* exactly the one integration step of its method, and nothing else; a failed
\* remote check or fetch ends the run with the error, with no integration
\* command run and the commit, index and working tree untouched; and apply
\* returns Ok only after the integration step ran without an error.
C27_ApplyOrder ==
    [][LET ran == applyRun'.git
           full == << "remote get-url", "fetch" >> \o IntegrationOf(applyRun.method)
           integrated == \E i \in DOMAIN ran :
                            ran[i] \in { "merge --ff-only", "rev-parse", "cherry-pick",
                                         "merge --squash" }
       IN  /\ IsPrefix(ran, full)
           /\ integrated => ran = full
           /\ applyRun'.pc = "done" => (ran = full /\ applyRun'.err = None)
           /\ (applyRun.pc \in { "ensure_remote", "fetch" } /\ applyRun'.err # None)
                 => /\ applyRun'.pc = "failed"
                    /\ ~integrated
                    /\ head' = head /\ index' = index /\ wt' = wt
                    /\ stdout' = stdout
           /\ applyRun'.pc = "failed" <=> applyRun'.err # None
           /\ (applyRun.pc = "ensure_remote" /\ SideRemote \notin remotes[HostNames[1]])
                 => applyRun'.err # None
           /\ (applyRun.pc = "fetch" /\ remoteTip = None) => applyRun'.err # None]_vars

\* The remote exists but the fetch failed: apply ended with the error after
\* two git commands.
C27_Witness ==
    /\ applyRun.pc = "failed"
    /\ applyRun.err # None
    /\ applyRun.git = << "remote get-url", "fetch" >>
    /\ SideRemote \in remotes[HostNames[1]]

(***************************************************************************)
(* Properties of the report                                                *)
(***************************************************************************)

\* print_run_summary printed all its lines.
Printed == Len(stdout) = Len(results) + 1

\* C28: when the report is printed, every result has produced its line
\* "[OK|NOOP|FAIL] <path> :: <message>", the lines of the results come in
\* result order, and the line "Processed N repos: A success, B no-op,
\* C failed" is the last line, after all of them.
C28_SummaryLineLast ==
    Printed =>
        /\ \A i \in DOMAIN results :
              stdout[i] = << "[",
                             CASE results[i].status = "Success" -> "OK"
                               [] results[i].status = "NoOp" -> "NOOP"
                               [] results[i].status = "Failed" -> "FAIL",
                             "] ", results[i].repo, " :: ", results[i].message >>
        /\ stdout[Len(stdout)][1] = "Processed "
        /\ stdout[Len(stdout)][2] = Len(results)

(***************************************************************************)
(* Further properties of the side-channel engine (Spec)                    *)
(***************************************************************************)

\* C31: the tree of the commit a sync call is about to push is the snapshot
\* tree when the call found no side tip or a side tip that is an ancestor of
\* the local HEAD commit; otherwise it is the three-way merge of the snapshot
\* with the side tip over their merge base, which keeps the side tip's content
\* of every file the snapshot left as the merge base has it: a diverged side
\* tip is never overwritten with the snapshot tree.
C31_PublishedTreeIsSnapshotOrMerge ==
    \A h \in Hosts :
        pc[h] = "push" =>
            LET l == loc[h]
                c == l.commit_hash[1]
                S == l.side_tip
            IN  IF S = None \/ is_ancestor(S[1], l.local_head)
                THEN c.tree = l.local_tree
                ELSE LET base == merge_base(l.local_head, S[1])
                         merged == MergeTree(base[1].tree, l.local_tree, S[1].tree)
                     IN  /\ base # None
                         /\ merged.success
                         /\ c.tree = merged.tree
                         /\ \A p \in Paths :
                                l.local_tree[p] = base[1].tree[p]
                                    => c.tree[p] = S[1].tree[p]

\* A call is about to push a tree that is neither its snapshot nor the tree of
\* the diverged side tip it merged with.
C31_Witness ==
    \E h \in Hosts :
        /\ pc[h] = "push"
        /\ loc[h].side_tip # None
        /\ ~is_ancestor(loc[h].side_tip[1], loc[h].local_head)
        /\ loc[h].commit_hash[1].tree # loc[h].local_tree
        /\ loc[h].commit_hash[1].tree # loc[h].side_tip[1].tree

\* The remote would take the commit as a fast-forward of the side branch.
FastForward(c) == remoteTip = None \/ is_ancestor(remoteTip[1], c)

\* C32: a push that fails although the remote would have taken the commit as a
\* fast-forward, so that its output has no rejection in it, ends the call at
\* once with the push-failed error, on the first attempt and on the retry; a
\* push that is not accepted otherwise leads to the one re-fetch or to an error.
\* A call that ended with the push-failed error made no re-fetch and no push
\* after the failed one.
C32_PushFailureIsImmediate ==
    [][\A h \in Hosts :
          /\ (pc[h] = "push" /\ pc'[h] # "push") =>
                LET pushing == loc[h].commit_hash[1]
                    failed == /\ pc'[h] = "done"
                              /\ result'[h].status = "Failed"
                              /\ result'[h].message =
                                     << "side-channel sync failed: ", PushFailedText >>
                              /\ remoteTip' = remoteTip
                              /\ trace'[h].refetches = trace[h].refetches
                              /\ trace'[h].pushes = trace[h].pushes + 1
                IN  /\ (FastForward(pushing) /\ remoteTip' # Some(pushing)) => failed
                    /\ remoteTip' # Some(pushing) =>
                          \/ failed
                          \/ ~loc[h].did_retry /\ pc'[h] = "refetch"
                          \/ /\ loc[h].did_retry /\ pc'[h] = "done"
                             /\ Mentions(result'[h].message, RacedText)
          /\ (pc'[h] = "done" /\ Mentions(result'[h].message, PushFailedText)) =>
                /\ trace'[h].pushes = trace'[h].refetches + 1
                /\ pc[h] \in { "push", "done" }]_vars

\* A call whose first push was rejected and whose second push failed.
C32_Witness ==
    \E h \in Hosts :
        /\ Done(h)
        /\ result[h].message = << "side-channel sync failed: ", PushFailedText >>
        /\ trace[h].pushes = 2
        /\ trace[h].refetches = 1

\* The positions of one run on the side-channel path, in the order of its git
\* operations: pull --ff-only, preflight fetch, read-tree (the snapshot),
\* staging, merge and commit object, push, re-fetch.
StepRank(p) ==
    CASE p = "idle" -> 0
      [] p = "preflight" -> 1
      [] p = "seed" -> 2
      [] p = "stage" -> 3
      [] p = "build" -> 4
      [] p = "push" -> 5
      [] p = "refetch" -> 6
      [] OTHER -> 7

\* C33: the operations of one repository's run on the side-channel path happen
\* in one order, pull --ff-only, preflight fetch, snapshot, merge and commit
\* object, push, each after the one before it has succeeded (the one re-fetch
\* after a rejected push leads back to the merge). A failed pull ends the run
\* with Failed "pull failed: ..." and a failed preflight with Failed
\* "side-channel setup failed: ...", and neither takes a snapshot, writes a
\* commit object or pushes.
C33_SideChannelStepOrder ==
    [][\A h \in Hosts :
          pc'[h] # pc[h] =>
             /\ \/ pc'[h] = "done" /\ pc[h] \notin { "idle", "preflight", "seed" }
                \/ pc[h] = "done" /\ pc'[h] = "idle"
                \/ pc[h] = "refetch" /\ pc'[h] = "build"
                \/ pc[h] # "done" /\ StepRank(pc'[h]) = StepRank(pc[h]) + 1
                \/ /\ pc[h] = "idle" /\ pc'[h] = "done"
                   /\ result'[h].status = "Failed"
                   /\ result'[h].message[1] = "pull failed: "
                   /\ UNCHANGED << trace, snap, index, tracking, remoteTip >>
                \/ /\ pc[h] = "preflight" /\ pc'[h] = "done"
                   /\ result'[h].status = "Failed"
                   /\ result'[h].message[1] = "side-channel setup failed: "
                   /\ UNCHANGED << trace, snap, index, tracking, remoteTip >>
             /\ trace'[h].snapshots # trace[h].snapshots =>
                   (pc[h] = "seed" /\ pc'[h] = "stage") \/ pc'[h] = "idle"
             /\ trace'[h].commits # trace[h].commits =>
                   (pc[h] = "build" /\ pc'[h] = "push") \/ pc'[h] = "idle"
             /\ pc'[h] \in { "seed", "stage", "build", "push", "refetch" } =>
                   SideRemote \in remotes[h]]_vars

\* One host's run ended with a failed pull, the other's with a failed
\* preflight, and a third run has pushed.
C33_Witness ==
    \E a, b \in Hosts :
        /\ Done(a) /\ Done(b)
        /\ result[a].message[1] = "pull failed: "
        /\ result[b].message[1] = "side-channel setup failed: "
        /\ remoteTip # None /\ remoteTip # Some(RootCommit)

\* C35: the snapshot index file exists only inside one sync call: from the
\* read-tree that seeds it up to the call's return, and on every way out of
\* the call (Pushed, NoChanges, any error) it is gone; each call that gets as
\* far as the read-tree has taken one snapshot, in an index of its own.
C35_SnapshotIndexReleased ==
    \A h \in Hosts :
        /\ pc[h] \in { "idle", "preflight", "seed", "done" } => snap[h] = None
        /\ pc[h] \in { "stage", "build", "push", "refetch" } =>
              (snap[h] # None /\ trace[h].snapshots = 1)
        /\ trace[h].snapshots <= 1

\* One call has returned an error after taking its snapshot, the other has
\* returned Pushed or NoChanges after taking its own.
C35_Witness ==
    \E a, b \in Hosts :
        /\ a # b
        /\ Done(a) /\ Done(b)
        /\ trace[a].snapshots = 1 /\ trace[b].snapshots = 1
        /\ result[a].sync = "Err"
        /\ result[b].sync \in { "Pushed", "NoChanges" }
        /\ snap[a] = None /\ snap[b] = None

\* C36: the tip of the side branch changes in a step exactly when that step
\* ends a sync call with Pushed, and it becomes the commit that call built; a
\* call that ends with NoChanges or with a failure has at no step changed it.
C36_TipChangesIffPushed ==
    [][/\ remoteTip' # remoteTip =>
             \E h \in Hosts :
                /\ pc[h] = "push" /\ pc'[h] = "done"
                /\ result'[h].sync = "Pushed"
                /\ remoteTip' = loc[h].commit_hash
       /\ \A h \in Hosts :
             (pc[h] # "done" /\ pc'[h] = "done") =>
                (result'[h].sync = "Pushed" <=> remoteTip' # remoteTip)]_vars

\* A call has failed after its push and another has returned NoChanges, while
\* the branch holds the commit a third call pushed.
C36_Witness ==
    \E a, b \in Hosts :
        /\ a # b
        /\ Done(a) /\ Done(b)
        /\ result[a].sync = "Err" /\ trace[a].pushes >= 1
        /\ result[b].sync = "NoChanges"
        /\ remoteTip # None /\ remoteTip # Some(RootCommit)

(***************************************************************************)
(* Further properties of the interactive selector (TuiSpec)                *)
(***************************************************************************)

\* C39: in every run configuration the selector returns side_channel.enabled
\* implies push_enabled; a completion on the run-mode screen (pull-only) has
\* both push_enabled and side_channel.enabled false, whatever the run
\* configuration the selector started from and wherever the cursors of the
\* other screens stand.
C39_SideChannelImpliesPush ==
    app.returned # None =>
        LET run_config == app.returned[1].run_config
        IN  /\ run_config.side_channel.enabled => run_config.push_enabled
            /\ app.ui.screen = "RunMode" =>
                  (~run_config.push_enabled /\ ~run_config.side_channel.enabled)
            /\ app.ui.screen = "SideChannel" =>
                  /\ run_config.push_enabled
                  /\ run_config.side_channel.enabled = (app.ui.side_channel_cursor = 0)

\* A pull-only completion of a selector that started from a run configuration
\* with push and side channel enabled, its side-channel cursor on "yes".
C39_Witness ==
    /\ app.outcome = "Complete"
    /\ app.ui.screen = "RunMode"
    /\ app.ui.base_run_config.push_enabled
    /\ app.ui.base_run_config.side_channel.enabled
    /\ app.ui.side_channel_cursor = 0
    /\ ~app.returned[1].run_config.side_channel.enabled

\* C40 as stated: Enter on the repository screen moves the selector to the
\* run-mode screen, for every repository list.
C40_Original ==
    [][(app.outcome = "Running" /\ app.ui.screen = "RepoSelection" /\ app'.key = "Enter")
          => app'.ui.screen = "RunMode"]_vars

\* C40 (amended): Enter on the repository screen moves the selector to the
\* run-mode screen exactly when the repository list is not empty. With an
\* empty list every key other than Esc, q and Q leaves the selector as it is,
\* on the repository screen, so that it never completes and ends only by
\* cancellation.
C40_EnterAdvancesNonEmptyList ==
    [][/\ (app.outcome = "Running" /\ app.ui.screen = "RepoSelection" /\ app'.key = "Enter")
             => (app'.ui.screen = "RunMode" <=> app.repos # << >>)
       /\ app.repos = << >> =>
             /\ app'.ui = app.ui
             /\ app'.ui.screen = "RepoSelection"
             /\ app'.outcome \in { "Running", "Cancelled" }
             /\ app'.outcome = "Cancelled" <=> app'.key \in { "Esc", "q", "Q" }]_vars

\* Enter was pressed on the repository screen of a selector without
\* repositories, which is still on that screen.
C40_Witness ==
    /\ app.repos = << >>
    /\ app.key = "Enter"
    /\ app.outcome = "Running"
    /\ app.ui.screen = "RepoSelection"

(***************************************************************************)
(* Properties of the refs and of the baseline of one sync call (SyncSpec)  *)
(***************************************************************************)

\* C34: every push of a sync call goes to the ref that is branch_name itself
\* when branch_name begins with refs/, and refs/heads/<branch_name> otherwise;
\* the pushes of one call, the retry included, go to one destination.
C34_PushDestination ==
    [][\A h \in Hosts :
          LET branch_name == cfg.side_channel.branch_name
              expected == IF branch_name[1] = "refs"
                          THEN branch_name
                          ELSE << "refs", "heads" >> \o branch_name
          IN  /\ trace'[h].pushes > 0 => trace'[h].destinations = { expected }
              /\ trace'[h].pushes = 0 => trace'[h].destinations = {}]_vars

\* A call has pushed twice to a branch whose name is given as a full ref name.
C34_Witness ==
    \E h \in Hosts :
        /\ cfg.side_channel.branch_name[1] = "refs"
        /\ trace[h].pushes = 2
        /\ trace[h].destinations = { cfg.side_channel.branch_name }

\* C37: for every branch_name, one that begins with refs/ included, the side
\* tip a call looked up as <remote>/<branch_name> after its fetch is the tip
\* of the remote's ref it pushes to; so a call of the only host that pushes,
\* after its fetch, never fails with the error of a lost race.
C37_LookupMatchesDestination ==
    \A h \in Hosts :
        /\ pc[h] = "push" => loc[h].side_tip = remoteTip
        /\ Done(h) => ~Mentions(result[h].message, RacedText)

\* C38: the commit a call records as its baseline, the parent and merge side
\* of its snapshot, is the commit whose tree seeded its snapshot index, also
\* when the developer commits in the working copy during the call.
C38_BaselineIsSeedingCommit ==
    \A h \in Hosts :
        pc[h] \in { "build", "push", "refetch" } => trace[h].seeded = Some(loc[h].local_head)

====
